---- MODULE Spec2Model ----
(***************************************************************************)
(* Code writer and MergeBack of FLUID (fluid/code.cxx, fluid/code.h).      *)
(*                                                                         *)
(* Text is a sequence of byte values (0..255); a C string is such a        *)
(* sequence without its terminating NUL, and reading one position past    *)
(* its end yields the NUL.  A 32-bit CRC is kept as its eight hexadecimal  *)
(* digits, most significant first, so that no value exceeds 32 bits.       *)
(***************************************************************************)
EXTENDS Integers, Sequences, FiniteSets, TLC

VARIABLES
  pc,          \* "idle", "write": write_code() is running, "closed": the code
               \* file is on disk, "merged": merge_back() returned, "crashed";
               \* "api": calls on the writer, "crc", "fed": crc_add() alone
  g_project,   \* the project settings read by the writer
  tree,        \* the design tree: the nodes in declaration order
  f,           \* the Fd_Code_Writer object
  emitted,     \* the code file on disk: as written, then as edited
  edits,       \* the changes made by the user since write_code()
  modflag,     \* the project's modification flag (set_modflag)
  p,           \* write_code(): the tree position of the next top-level node
  mb,          \* the last merge_back() call: task, result and scan record
  last         \* the last call made on the writer and what it did

vars == <<pc, g_project, tree, f, emitted, edits, modflag, p, mb, last>>

----------------------------------------------------------------------------
(* Bytes and C library helpers *)

NUL == 0
NL  == 10
CR  == 13
SP  == 32

Min(a, b) == IF a < b THEN a ELSE b
Max(a, b) == IF a > b THEN a ELSE b

\* s[i] of a NUL-terminated string: the terminator is read past the last byte
At(s, i) == IF i >= 1 /\ i <= Len(s) THEN s[i] ELSE NUL

\* isspace() in the "C" locale
isspace(c) == c \in {9, 10, 11, 12, 13, 32}

\* a (signed) char that is > 0
IsPositiveChar(c) == c > 0 /\ c < 128

\* index of the first byte c in s at or after position from, 0 if there is none
IndexFrom(s, c, from) ==
  LET hits == {i \in from..Len(s) : s[i] = c}
  IN  IF hits = {} THEN 0 ELSE CHOOSE i \in hits : \A j \in hits : i <= j

strchr(s, c) == IndexFrom(s, c, 1)

strlen(s) == LET z == IndexFrom(s, NUL, 1) IN IF z = 0 THEN Len(s) ELSE z - 1

\* what vsnprintf(buf, size, ...) stores in buf for the formatted text
\* (without the terminating NUL); its return value is Len(text)
vsnprintf(size, text) ==
  IF size = 0 THEN <<>> ELSE SubSeq(text, 1, Min(Len(text), size - 1))

HexDigit(d) == IF d < 10 THEN 48 + d ELSE 87 + d

\* "%04x" of a 16-bit value
Hex4(v) ==
  <<HexDigit(v \div 4096), HexDigit((v \div 256) % 16),
    HexDigit((v \div 16) % 16), HexDigit(v % 16)>>

\* "%08x" of a 32-bit value
Hex8(c) == [i \in 1..8 |-> HexDigit(c[i])]

\* "%d" of a small integer
Dec(v) ==
  IF v < 0 THEN <<45, 48 + (-v)>>
  ELSE IF v < 10 THEN <<48 + v>>
  ELSE IF v < 100 THEN <<48 + (v \div 10), 48 + (v % 10)>>
  ELSE <<48 + (v \div 100), 48 + ((v \div 10) % 10), 48 + (v % 10)>>

----------------------------------------------------------------------------
(* zlib crc32(): CRC-32, polynomial 0xEDB88320, table driven *)

XorNib ==
  <<
    <<0,1,2,3,4,5,6,7,8,9,10,11,12,13,14,15>>,
    <<1,0,3,2,5,4,7,6,9,8,11,10,13,12,15,14>>,
    <<2,3,0,1,6,7,4,5,10,11,8,9,14,15,12,13>>,
    <<3,2,1,0,7,6,5,4,11,10,9,8,15,14,13,12>>,
    <<4,5,6,7,0,1,2,3,12,13,14,15,8,9,10,11>>,
    <<5,4,7,6,1,0,3,2,13,12,15,14,9,8,11,10>>,
    <<6,7,4,5,2,3,0,1,14,15,12,13,10,11,8,9>>,
    <<7,6,5,4,3,2,1,0,15,14,13,12,11,10,9,8>>,
    <<8,9,10,11,12,13,14,15,0,1,2,3,4,5,6,7>>,
    <<9,8,11,10,13,12,15,14,1,0,3,2,5,4,7,6>>,
    <<10,11,8,9,14,15,12,13,2,3,0,1,6,7,4,5>>,
    <<11,10,9,8,15,14,13,12,3,2,1,0,7,6,5,4>>,
    <<12,13,14,15,8,9,10,11,4,5,6,7,0,1,2,3>>,
    <<13,12,15,14,9,8,11,10,5,4,7,6,1,0,3,2>>,
    <<14,15,12,13,10,11,8,9,6,7,4,5,2,3,0,1>>,
    <<15,14,13,12,11,10,9,8,7,6,5,4,3,2,1,0>>
  >>

crc_table ==
  <<
    <<0,0,0,0,0,0,0,0>>, <<7,7,0,7,3,0,9,6>>, <<14,14,0,14,6,1,2,12>>, <<9,9,0,9,5,1,11,10>>,
    <<0,7,6,13,12,4,1,9>>, <<7,0,6,10,15,4,8,15>>, <<14,9,6,3,10,5,3,5>>, <<9,14,6,4,9,5,10,3>>,
    <<0,14,13,11,8,8,3,2>>, <<7,9,13,12,11,8,10,4>>, <<14,0,13,5,14,9,1,14>>, <<9,7,13,2,13,9,8,8>>,
    <<0,9,11,6,4,12,2,11>>, <<7,14,11,1,7,12,11,13>>, <<14,7,11,8,2,13,0,7>>, <<9,0,11,15,1,13,9,1>>,
    <<1,13,11,7,1,0,6,4>>, <<6,10,11,0,2,0,15,2>>, <<15,3,11,9,7,1,4,8>>, <<8,4,11,14,4,1,13,14>>,
    <<1,10,13,10,13,4,7,13>>, <<6,13,13,13,14,4,14,11>>, <<15,4,13,4,11,5,5,1>>, <<8,3,13,3,8,5,12,7>>,
    <<1,3,6,12,9,8,5,6>>, <<6,4,6,11,10,8,12,0>>, <<15,13,6,2,15,9,7,10>>, <<8,10,6,5,12,9,14,12>>,
    <<1,4,0,1,5,12,4,15>>, <<6,3,0,6,6,12,13,9>>, <<15,10,0,15,3,13,6,3>>, <<8,13,0,8,0,13,15,5>>,
    <<3,11,6,14,2,0,12,8>>, <<4,12,6,9,1,0,5,14>>, <<13,5,6,0,4,1,14,4>>, <<10,2,6,7,7,1,7,2>>,
    <<3,12,0,3,14,4,13,1>>, <<4,11,0,4,13,4,4,7>>, <<13,2,0,13,8,5,15,13>>, <<10,5,0,10,11,5,6,11>>,
    <<3,5,11,5,10,8,15,10>>, <<4,2,11,2,9,8,6,12>>, <<13,11,11,11,12,9,13,6>>, <<10,12,11,12,15,9,4,0>>,
    <<3,2,13,8,6,12,14,3>>, <<4,5,13,15,5,12,7,5>>, <<13,12,13,6,0,13,12,15>>, <<10,11,13,1,3,13,5,9>>,
    <<2,6,13,9,3,0,10,12>>, <<5,1,13,14,0,0,3,10>>, <<12,8,13,7,5,1,8,0>>, <<11,15,13,0,6,1,1,6>>,
    <<2,1,11,4,15,4,11,5>>, <<5,6,11,3,12,4,2,3>>, <<12,15,11,10,9,5,9,9>>, <<11,8,11,13,10,5,0,15>>,
    <<2,8,0,2,11,8,9,14>>, <<5,15,0,5,8,8,0,8>>, <<12,6,0,12,13,9,11,2>>, <<11,1,0,11,14,9,2,4>>,
    <<2,15,6,15,7,12,8,7>>, <<5,8,6,8,4,12,1,1>>, <<12,1,6,1,1,13,10,11>>, <<11,6,6,6,2,13,3,13>>,
    <<7,6,13,12,4,1,9,0>>, <<0,1,13,11,7,1,0,6>>, <<9,8,13,2,2,0,11,12>>, <<14,15,13,5,1,0,2,10>>,
    <<7,1,11,1,8,5,8,9>>, <<0,6,11,6,11,5,1,15>>, <<9,15,11,15,14,4,10,5>>, <<14,8,11,8,13,4,3,3>>,
    <<7,8,0,7,12,9,10,2>>, <<0,15,0,0,15,9,3,4>>, <<9,6,0,9,10,8,8,14>>, <<14,1,0,14,9,8,1,8>>,
    <<7,15,6,10,0,13,11,11>>, <<0,8,6,13,3,13,2,13>>, <<9,1,6,4,6,12,9,7>>, <<14,6,6,3,5,12,0,1>>,
    <<6,11,6,11,5,1,15,4>>, <<1,12,6,12,6,1,6,2>>, <<8,5,6,5,3,0,13,8>>, <<15,2,6,2,0,0,4,14>>,
    <<6,12,0,6,9,5,14,13>>, <<1,11,0,1,10,5,7,11>>, <<8,2,0,8,15,4,12,1>>, <<15,5,0,15,12,4,5,7>>,
    <<6,5,11,0,13,9,12,6>>, <<1,2,11,7,14,9,5,0>>, <<8,11,11,14,11,8,14,10>>, <<15,12,11,9,8,8,7,12>>,
    <<6,2,13,13,1,13,13,15>>, <<1,5,13,10,2,13,4,9>>, <<8,12,13,3,7,12,15,3>>, <<15,11,13,4,4,12,6,5>>,
    <<4,13,11,2,6,1,5,8>>, <<3,10,11,5,5,1,12,14>>, <<10,3,11,12,0,0,7,4>>, <<13,4,11,11,3,0,14,2>>,
    <<4,10,13,15,10,5,4,1>>, <<3,13,13,8,9,5,13,7>>, <<10,4,13,1,12,4,6,13>>, <<13,3,13,6,15,4,15,11>>,
    <<4,3,6,9,14,9,6,10>>, <<3,4,6,14,13,9,15,12>>, <<10,13,6,7,8,8,4,6>>, <<13,10,6,0,11,8,13,0>>,
    <<4,4,0,4,2,13,7,3>>, <<3,3,0,3,1,13,14,5>>, <<10,10,0,10,4,12,5,15>>, <<13,13,0,13,7,12,12,9>>,
    <<5,0,0,5,7,1,3,12>>, <<2,7,0,2,4,1,10,10>>, <<11,14,0,11,1,0,1,0>>, <<12,9,0,12,2,0,8,6>>,
    <<5,7,6,8,11,5,2,5>>, <<2,0,6,15,8,5,11,3>>, <<11,9,6,6,13,4,0,9>>, <<12,14,6,1,14,4,9,15>>,
    <<5,14,13,14,15,9,0,14>>, <<2,9,13,9,12,9,9,8>>, <<11,0,13,0,9,8,2,2>>, <<12,7,13,7,10,8,11,4>>,
    <<5,9,11,3,3,13,1,7>>, <<2,14,11,4,0,13,8,1>>, <<11,7,11,13,5,12,3,11>>, <<12,0,11,10,6,12,10,13>>,
    <<14,13,11,8,8,3,2,0>>, <<9,10,11,15,11,3,11,6>>, <<0,3,11,6,14,2,0,12>>, <<7,4,11,1,13,2,9,10>>,
    <<14,10,13,5,4,7,3,9>>, <<9,13,13,2,7,7,10,15>>, <<0,4,13,11,2,6,1,5>>, <<7,3,13,12,1,6,8,3>>,
    <<14,3,6,3,0,11,1,2>>, <<9,4,6,4,3,11,8,4>>, <<0,13,6,13,6,10,3,14>>, <<7,10,6,10,5,10,10,8>>,
    <<14,4,0,14,12,15,0,11>>, <<9,3,0,9,15,15,9,13>>, <<0,10,0,0,10,14,2,7>>, <<7,13,0,7,9,14,11,1>>,
    <<15,0,0,15,9,3,4,4>>, <<8,7,0,8,10,3,13,2>>, <<1,14,0,1,15,2,6,8>>, <<6,9,0,6,12,2,15,14>>,
    <<15,7,6,2,5,7,5,13>>, <<8,0,6,5,6,7,12,11>>, <<1,9,6,12,3,6,7,1>>, <<6,14,6,11,0,6,14,7>>,
    <<15,14,13,4,1,11,7,6>>, <<8,9,13,3,2,11,14,0>>, <<1,0,13,10,7,10,5,10>>, <<6,7,13,13,4,10,12,12>>,
    <<15,9,11,9,13,15,6,15>>, <<8,14,11,14,14,15,15,9>>, <<1,7,11,7,11,14,4,3>>, <<6,0,11,0,8,14,13,5>>,
    <<13,6,13,6,10,3,14,8>>, <<10,1,13,1,9,3,7,14>>, <<3,8,13,8,12,2,12,4>>, <<4,15,13,15,15,2,5,2>>,
    <<13,1,11,11,6,7,15,1>>, <<10,6,11,12,5,7,6,7>>, <<3,15,11,5,0,6,13,13>>, <<4,8,11,2,3,6,4,11>>,
    <<13,8,0,13,2,11,13,10>>, <<10,15,0,10,1,11,4,12>>, <<3,6,0,3,4,10,15,6>>, <<4,1,0,4,7,10,6,0>>,
    <<13,15,6,0,14,15,12,3>>, <<10,8,6,7,13,15,5,5>>, <<3,1,6,14,8,14,14,15>>, <<4,6,6,9,11,14,7,9>>,
    <<12,11,6,1,11,3,8,12>>, <<11,12,6,6,8,3,1,10>>, <<2,5,6,15,13,2,10,0>>, <<5,2,6,8,14,2,3,6>>,
    <<12,12,0,12,7,7,9,5>>, <<11,11,0,11,4,7,0,3>>, <<2,2,0,2,1,6,11,9>>, <<5,5,0,5,2,6,2,15>>,
    <<12,5,11,10,3,11,11,14>>, <<11,2,11,13,0,11,2,8>>, <<2,11,11,4,5,10,9,2>>, <<5,12,11,3,6,10,0,4>>,
    <<12,2,13,7,15,15,10,7>>, <<11,5,13,0,12,15,3,1>>, <<2,12,13,9,9,14,8,11>>, <<5,11,13,14,10,14,1,13>>,
    <<9,11,6,4,12,2,11,0>>, <<14,12,6,3,15,2,2,6>>, <<7,5,6,10,10,3,9,12>>, <<0,2,6,13,9,3,0,10>>,
    <<9,12,0,9,0,6,10,9>>, <<14,11,0,14,3,6,3,15>>, <<7,2,0,7,6,7,8,5>>, <<0,5,0,0,5,7,1,3>>,
    <<9,5,11,15,4,10,8,2>>, <<14,2,11,8,7,10,1,4>>, <<7,11,11,1,2,11,10,14>>, <<0,12,11,6,1,11,3,8>>,
    <<9,2,13,2,8,14,9,11>>, <<14,5,13,5,11,14,0,13>>, <<7,12,13,12,14,15,11,7>>, <<0,11,13,11,13,15,2,1>>,
    <<8,6,13,3,13,2,13,4>>, <<15,1,13,4,14,2,4,2>>, <<6,8,13,13,11,3,15,8>>, <<1,15,13,10,8,3,6,14>>,
    <<8,1,11,14,1,6,12,13>>, <<15,6,11,9,2,6,5,11>>, <<6,15,11,0,7,7,14,1>>, <<1,8,11,7,4,7,7,7>>,
    <<8,8,0,8,5,10,14,6>>, <<15,15,0,15,6,10,7,0>>, <<6,6,0,6,3,11,12,10>>, <<1,1,0,1,0,11,5,12>>,
    <<8,15,6,5,9,14,15,15>>, <<15,8,6,2,10,14,6,9>>, <<6,1,6,11,15,15,13,3>>, <<1,6,6,12,12,15,4,5>>,
    <<10,0,0,10,14,2,7,8>>, <<13,7,0,13,13,2,14,14>>, <<4,14,0,4,8,3,5,4>>, <<3,9,0,3,11,3,12,2>>,
    <<10,7,6,7,2,6,6,1>>, <<13,0,6,0,1,6,15,7>>, <<4,9,6,9,4,7,4,13>>, <<3,14,6,14,7,7,13,11>>,
    <<10,14,13,1,6,10,4,10>>, <<13,9,13,6,5,10,13,12>>, <<4,0,13,15,0,11,6,6>>, <<3,7,13,8,3,11,15,0>>,
    <<10,9,11,12,10,14,5,3>>, <<13,14,11,11,9,14,12,5>>, <<4,7,11,2,12,15,7,15>>, <<3,0,11,5,15,15,14,9>>,
    <<11,13,11,13,15,2,1,12>>, <<12,10,11,10,12,2,8,10>>, <<5,3,11,3,9,3,3,0>>, <<2,4,11,4,10,3,10,6>>,
    <<11,10,13,0,3,6,0,5>>, <<12,13,13,7,0,6,9,3>>, <<5,4,13,14,5,7,2,9>>, <<2,3,13,9,6,7,11,15>>,
    <<11,3,6,6,7,10,2,14>>, <<12,4,6,1,4,10,11,8>>, <<5,13,6,8,1,11,0,2>>, <<2,10,6,15,2,11,9,4>>,
    <<11,4,0,11,11,14,3,7>>, <<12,3,0,12,8,14,10,1>>, <<5,10,0,5,13,15,1,11>>, <<2,13,0,2,14,15,8,13>>
  >>

Xor4(a, b) == XorNib[a + 1][b + 1]

\* crc32(0, NULL, 0)
crc32_init == <<0, 0, 0, 0, 0, 0, 0, 0>>

\* crc32(crc, &b, 1)
crc32(crc, b) ==
  LET Out(c, t) ==
        <<15 - t[1], 15 - t[2],
          15 - Xor4(t[3], c[1]), 15 - Xor4(t[4], c[2]), 15 - Xor4(t[5], c[3]),
          15 - Xor4(t[6], c[4]), 15 - Xor4(t[7], c[5]), 15 - Xor4(t[8], c[6])>>
      Step(c) ==
        Out(c, crc_table[16 * Xor4(c[7], b \div 16) + Xor4(c[8], b % 16) + 1])
  IN  Step([i \in 1..8 |-> 15 - crc[i]])

----------------------------------------------------------------------------
(* Fd_Code_Writer: the block CRC *)

\* MergeBack tag types and tasks (code.h)
FD_TAG_GENERIC         == 0
FD_TAG_CODE            == 1
FD_TAG_MENU_CALLBACK   == 2
FD_TAG_WIDGET_CALLBACK == 3
FD_TAG_LAST            == 3

FD_MERGEBACK_CHECK       == 0
FD_MERGEBACK_INTERACTIVE == 1
FD_MERGEBACK_GO          == 2
FD_MERGEBACK_GO_SAFE     == 3

\* the while loop of crc_add(): leading spaces and tabs of a line
RECURSIVE crc_skip_space(_, _, _)
crc_skip_space(data, s, n) ==
  IF n > 0 /\ IsPositiveChar(At(data, s)) /\ isspace(At(data, s))
  THEN crc_skip_space(data, s + 1, n - 1)
  ELSE <<s, n>>

\* one iteration of the for loop of crc_add(); st.s is the position of the
\* pointer s in data, st.n the remaining count
crc_add_step(data, st) ==
  LET a   == IF st.ls THEN crc_skip_space(data, st.s, st.n) ELSE <<st.s, st.n>>
      ls1 == IF st.ls /\ At(data, a[1]) # NUL THEN FALSE ELSE st.ls
      cr  == a[2] > 0 /\ At(data, a[1]) = CR
      s2  == IF cr THEN a[1] + 1 ELSE a[1]
      n2  == IF cr THEN a[2] - 1 ELSE a[2]
      ls2 == IF n2 > 0 /\ At(data, s2) = NL THEN TRUE ELSE ls1
      c2  == IF n2 > 0 THEN crc32(st.crc, At(data, s2)) ELSE st.crc
  IN  [crc |-> c2, ls |-> ls2, s |-> s2 + 1, n |-> n2 - 1]

\* the for loop (run sixteen iterations at a time to keep the evaluation flat)
RECURSIVE crc_add_run(_, _, _)
crc_add_run(data, st, k) ==
  IF st.n <= 0 \/ k = 0 THEN st
  ELSE crc_add_run(data, crc_add_step(data, st), k - 1)

RECURSIVE crc_add_loop(_, _)
crc_add_loop(data, st) ==
  IF st.n <= 0 THEN st ELSE crc_add_loop(data, crc_add_run(data, st, 16))

\* crc_add(data, n) on the accumulator (block_crc_, block_line_start_)
crc_add_acc(crc, ls, data, n) ==
  LET Out(st) == [crc |-> st.crc, ls |-> st.ls]
  IN  Out(crc_add_loop(data, [crc |-> crc, ls |-> ls, s |-> 1, n |-> n]))

\* Fd_Code_Writer::crc_add(data, n)
crc_add(w, data, n) ==
  LET Out(r) == [w EXCEPT !.block_crc_ = r.crc, !.block_line_start_ = r.ls]
  IN  Out(crc_add_acc(w.block_crc_, w.block_line_start_, data, n))

----------------------------------------------------------------------------
(* Fd_Code_Writer: construction and the writing calls *)

\* Fd_Code_Writer::Fd_Code_Writer()
Fd_Code_Writer ==
  [ code_file          |-> <<>>,
    header_file        |-> <<>>,
    text_in_header     |-> {},
    text_in_code       |-> {},
    block_crc_         |-> crc32_init,
    block_buffer_size_ |-> 0,
    block_line_start_  |-> TRUE,
    indentation        |-> 0,
    varused_test       |-> 0,
    varused            |-> 0,
    id_root            |-> {} ]

\* the tag line "//~fl~%d~%04x~%08x~~\n"
TagMarker == <<47, 47, 126, 102, 108, 126>>

tag_line(type, uid, crc) ==
  TagMarker \o Dec(type) \o <<126>> \o Hex4(uid) \o <<126>> \o Hex8(crc)
            \o <<126, 126, NL>>

\* Fd_Code_Writer::tag(type, uid)
tag(w, type, uid) ==
  LET w1 == IF g_project.write_mergeback_data
            THEN [w EXCEPT !.code_file = @ \o tag_line(type, uid, w.block_crc_)]
            ELSE w
  IN  [w1 EXCEPT !.block_crc_ = crc32_init]

\* block_buffer_size_ grows to the formatted length plus this
BlockBufferSlack == 128

\* Fd_Code_Writer::crc_vprintf(format, args); text is the formatted output.
\* (Formatting the same va_list a second time after the buffer has grown is
\* taken to yield the same text.)
crc_vprintf(w, text) ==
  IF g_project.write_mergeback_data
  THEN LET n    == Len(text)
           size == IF n > w.block_buffer_size_ THEN n + BlockBufferSlack
                   ELSE w.block_buffer_size_
           buf  == vsnprintf(size, text)
           Fputs(w1) == [w1 EXCEPT !.code_file = @ \o buf]
       IN  Fputs(crc_add([w EXCEPT !.block_buffer_size_ = size], buf, n))
  ELSE [w EXCEPT !.code_file = @ \o text]

\* Fd_Code_Writer::vwrite_c() and write_c()
write_c(w, text) ==
  IF w.varused_test # 0 THEN [w EXCEPT !.varused = 1] ELSE crc_vprintf(w, text)

\* Fd_Code_Writer::write_h()
write_h(w, text) ==
  IF w.varused_test # 0 THEN w ELSE [w EXCEPT !.header_file = @ \o text]

\* an indent() without the limit of 32 spaces
indent_unlimited(set) ==
  LET i == Max(0, set * 2) IN [k \in 1..i |-> SP]

\* Fd_Code_Writer::indent(set)
indent(set) ==
  LET i == Max(0, Min(32, set * 2)) IN [k \in 1..i |-> SP]

\* Fd_Code_Writer::indent(): the indentation of the current level
indent_current(w) == indent(w.indentation)

\* Fd_Code_Writer::indent_plus(offset)
indent_plus(w, offset) == indent(w.indentation + offset)

\* Fd_Code_Writer::indent_more() and indent_less()
indent_more(w) == [w EXCEPT !.indentation = @ + 1]

indent_less(w) == [w EXCEPT !.indentation = @ - 1]

\* the for (;;) loop of write_c_indented()
RECURSIVE write_c_indented_lines(_, _, _)
write_c_indented_lines(w, textlines, inTrailWith) ==
  LET newline  == strchr(textlines, NL)
      line_len == IF newline # 0 THEN newline - 1 ELSE strlen(textlines)
      line     == SubSeq(textlines, 1, line_len)
      Rest(w1) ==
        IF newline # 0
        THEN write_c_indented_lines(write_c(w1, <<NL>>),
                                    SubSeq(textlines, newline + 1, Len(textlines)),
                                    inTrailWith)
        ELSE IF inTrailWith # NUL THEN write_c(w1, <<inTrailWith>>) ELSE w1
  IN  Rest(IF At(textlines, 1) = NL THEN w
           ELSE IF At(textlines, 1) = 35 THEN write_c(w, line)
           ELSE write_c(w, indent(w.indentation) \o line))

\* Fd_Code_Writer::write_c_indented(textlines, inIndent, inTrailWith)
write_c_indented(w, textlines, inIndent, inTrailWith) ==
  LET w0 == [w EXCEPT !.indentation = @ + inIndent]
      w1 == write_c_indented_lines(w0, textlines, inTrailWith)
  IN  [w1 EXCEPT !.indentation = @ - inIndent]

\* size of the line buffer of write_h_once() and write_c_once()
OnceBufSize == 1024

\* Fd_Code_Writer::write_h_once(): the writer afterwards and the return value
write_h_once(w, line) ==
  LET buf == vsnprintf(OnceBufSize, line)
  IN  IF buf \in w.text_in_header THEN [w |-> w, ret |-> 0]
      ELSE [w   |-> [w EXCEPT !.header_file = @ \o buf \o <<NL>>,
                              !.text_in_header = @ \cup {buf}],
            ret |-> 1]

\* a write_c_once() that looks into the set of the code file only
write_c_once_code_only(w, line) ==
  LET buf == vsnprintf(OnceBufSize, line)
  IN  IF buf \in w.text_in_code THEN [w |-> w, ret |-> 0]
      ELSE [w   |-> [crc_vprintf(w, buf \o <<NL>>) EXCEPT !.text_in_code = @ \cup {buf}],
            ret |-> 1]

\* a write_c_once() that notes the line in the set of the code file although
\* the header file holds it
write_c_once_noting(w, line) ==
  LET buf == vsnprintf(OnceBufSize, line)
  IN  IF buf \in w.text_in_header
      THEN [w |-> [w EXCEPT !.text_in_code = @ \cup {buf}], ret |-> 0]
      ELSE IF buf \in w.text_in_code THEN [w |-> w, ret |-> 0]
      ELSE [w   |-> [crc_vprintf(w, buf \o <<NL>>) EXCEPT !.text_in_code = @ \cup {buf}],
            ret |-> 1]

\* Fd_Code_Writer::write_c_once(): the writer afterwards and the return value
write_c_once(w, line) ==
  LET buf == vsnprintf(OnceBufSize, line)
  IN  IF buf \in w.text_in_header THEN [w |-> w, ret |-> 0]
      ELSE IF buf \in w.text_in_code THEN [w |-> w, ret |-> 0]
      ELSE [w   |-> [crc_vprintf(w, buf \o <<NL>>) EXCEPT !.text_in_code = @ \cup {buf}],
            ret |-> 1]

----------------------------------------------------------------------------
(* Fd_Code_Writer: write_cstring(), write_cdata(), write_cc(), write_hc() *)

\* Fd_Code_Writer::crc_puts(text)
crc_puts(w, text) ==
  LET Fputs(w1) == [w1 EXCEPT !.code_file = @ \o text]
  IN  Fputs(IF g_project.write_mergeback_data THEN crc_add(w, text, strlen(text))
            ELSE w)

\* Fd_Code_Writer::crc_putc(c)
crc_putc(w, c) ==
  LET Fputc(w1) == [w1 EXCEPT !.code_file = @ \o <<c>>]
  IN  Fputc(IF g_project.write_mergeback_data THEN crc_add(w, <<c>>, 1) ELSE w)

\* "%o" of a byte
sprintf_o(c) ==
  IF c < 8 THEN <<48 + c>>
  ELSE IF c < 64 THEN <<48 + (c \div 8), 48 + (c % 8)>>
  ELSE <<48 + (c \div 64), 48 + ((c \div 8) % 8), 48 + (c % 8)>>

\* no byte behind an octal constant is taken for a hex digit
IsHexChar_none(c) == FALSE

\* (c>='0'&&c<='9') || (c>='a'&&c<='f') || (c>='A'&&c<='F')
IsHexChar(c) ==
  \/ (c >= 48 /\ c <= 57)
  \/ (c >= 97 /\ c <= 102)
  \/ (c >= 65 /\ c <= 70)

\* if (linelength >= limit) { crc_puts("\\\n"); linelength = 0; }
cstring_wrap(st, limit) ==
  IF st.linelength >= limit
    THEN [st EXCEPT !.w = crc_puts(st.w, <<92, NL>>), !.linelength = 0]
    ELSE st

\* the label QUOTED of write_cstring(): a backslash and c
cstring_quoted(st, c) ==
  LET Out(a) == [a EXCEPT !.w = crc_putc(crc_putc(a.w, 92), c),
                          !.linelength = @ + 2]
  IN  Out(cstring_wrap(st, 77))

\* every byte written with a backslash before it
cstring_plain_quoted(st, c, wrap) == cstring_quoted(st, c)

\* a byte written as it is, behind a line break if the line is at limit
cstring_plain(st, c, wrap) ==
  LET Out(a) == [a EXCEPT !.w = crc_putc(a.w, c), !.linelength = @ + 1]
  IN  Out(IF wrap THEN cstring_wrap(st, 78) ELSE st)

\* a byte written as an octal constant; the string constant is closed and
\* opened again if the next byte of s is a hex digit
cstring_octal(st, s, e, c) ==
  LET limit == IF c < 8 THEN 76 ELSE IF c < 64 THEN 75 ELSE 74
      width == IF c < 8 THEN 2 ELSE IF c < 64 THEN 3 ELSE 4
      Paste(a) ==
        IF st.p <= e /\ IsHexChar(At(s, st.p))
          THEN LET Open(b) == [b EXCEPT !.w = crc_putc(b.w, 34), !.linelength = @ + 1]
                   Break(b) == IF b.linelength >= 79
                                 THEN [b EXCEPT !.w = crc_puts(b.w, <<NL>>),
                                                !.linelength = 0]
                                 ELSE b
               IN  Open(Break(Open(a)))
          ELSE a
      Out(a) == Paste([a EXCEPT !.w = crc_vprintf(a.w, <<92>> \o sprintf_o(c)),
                                !.linelength = @ + width])
  IN  Out(cstring_wrap(st, limit))

\* one round of the for loop of write_cstring(); st.p is the position of the
\* pointer p in s behind the byte c just read, e the length
write_cstring_step(st0, s, e) ==
  LET c  == s[st0.p]
      st == [st0 EXCEPT !.p = @ + 1]
  IN  IF c = 8 THEN cstring_quoted(st, 98)
      ELSE IF c = 9 THEN cstring_quoted(st, 116)
      ELSE IF c = NL THEN cstring_quoted(st, 110)
      ELSE IF c = 12 THEN cstring_quoted(st, 102)
      ELSE IF c = CR THEN cstring_quoted(st, 114)
      ELSE IF c \in {34, 39, 92} THEN cstring_quoted(st, c)
      ELSE IF c = 63 /\ st0.p >= 2 /\ s[st0.p - 1] = 63 THEN cstring_quoted(st, c)
      ELSE IF c >= SP /\ c < 127 THEN cstring_plain(st, c, TRUE)
      ELSE IF g_project.utf8_in_src /\ c >= 128
        THEN cstring_plain(st, c, (c \div 64) % 2 = 1)
      ELSE cstring_octal(st, s, e, c)

\* the for loop (run sixteen rounds at a time to keep the evaluation flat)
RECURSIVE write_cstring_run(_, _, _, _)
write_cstring_run(st, s, e, k) ==
  IF st.p > e \/ k = 0 THEN st
  ELSE write_cstring_run(write_cstring_step(st, s, e), s, e, k - 1)

RECURSIVE write_cstring_loop(_, _, _)
write_cstring_loop(st, s, e) ==
  IF st.p > e THEN st ELSE write_cstring_loop(write_cstring_run(st, s, e, 16), s, e)

\* Fd_Code_Writer::write_cstring(s, length), not for the source view; a
\* length of -1 stands for a string that was not found
write_cstring(w, s, length) ==
  IF w.varused_test # 0 THEN [w EXCEPT !.varused = 1]
  ELSE IF length = -1
    THEN crc_puts(crc_puts(w, <<10, 35, 101, 114, 114, 111, 114, 32, 32, 115, 116, 114, 105, 110, 103, 32, 110, 111, 116, 32, 102, 111, 117, 110, 100, 10>>),
                  <<34, 32, 46, 46, 46, 32, 117, 110, 100, 101, 102, 105, 110, 101, 100, 32, 115, 105, 122, 101, 32, 116, 101, 120, 116, 46, 46, 46, 32, 34>>)
  ELSE crc_putc(write_cstring_loop([w |-> crc_putc(w, 34), p |-> 1, linelength |-> 1],
                                   s, length).w, 34)

\* the for loop of write_cdata()
RECURSIVE write_cdata_loop(_, _, _)
write_cdata_loop(st, s, e) ==
  IF st.p > e THEN st
  ELSE LET c  == s[st.p]
           ll == st.linelength + (IF c > 99 THEN 4 ELSE IF c > 9 THEN 3 ELSE 2)
           w1 == IF ll >= 77 THEN crc_puts(st.w, <<NL>>) ELSE st.w
           w2 == crc_vprintf(w1, Dec(c))
       IN  write_cdata_loop([w |-> IF st.p < e THEN crc_putc(w2, 44) ELSE w2,
                             p |-> st.p + 1,
                             linelength |-> IF ll >= 77 THEN 0 ELSE ll], s, e)

\* Fd_Code_Writer::write_cdata(s, length), not for the source view
write_cdata(w, s, length) ==
  IF w.varused_test # 0 THEN [w EXCEPT !.varused = 1]
  ELSE IF length = -1
    THEN crc_puts(crc_puts(w, <<10, 35, 101, 114, 114, 111, 114, 32, 32, 100, 97, 116, 97, 32, 110, 111, 116, 32, 102, 111, 117, 110, 100, 10>>),
                  <<123, 32, 47, 42, 32, 46, 46, 46, 32, 117, 110, 100, 101, 102, 105, 110, 101, 100, 32, 115, 105, 122, 101, 32, 98, 105, 110, 97, 114, 121, 32, 100, 97, 116, 97, 46, 46, 46, 32, 42, 47, 32, 125>>)
  ELSE crc_putc(write_cdata_loop([w |-> crc_putc(w, 123), p |-> 1, linelength |-> 1],
                                 s, length).w, 125)

\* Fd_Code_Writer::write_cc(indent, n, c, com), n >= 1
write_cc(w, ind, n, c, com) ==
  LET w1 == write_c(w, ind \o SubSeq(c, 1, Min(n, Len(c))))
      w2 == IF At(c, n) \notin {125, 59} THEN write_c(w1, <<59>>) ELSE w1
      w3 == IF com # <<>> THEN write_c(w2, <<SP>> \o com) ELSE w2
  IN  write_c(w3, <<NL>>)

\* Fd_Code_Writer::write_hc(indent, n, c, com), n >= 1
write_hc(w, ind, n, c, com) ==
  LET w1 == write_h(w, ind \o SubSeq(c, 1, Min(n, Len(c))))
      w2 == IF At(c, n) \notin {125, 59} THEN write_h(w1, <<59>>) ELSE w1
      w3 == IF com # <<>> THEN write_h(w2, <<SP>> \o com) ELSE w2
  IN  write_h(w3, <<NL>>)

----------------------------------------------------------------------------
(* Fd_Code_Writer::write_public() and the classes around the node written *)

\* The classes and widget classes around the node that is being written are
\* kept from the outermost to the innermost, each with the
\* write_public_state it has recorded.

\* the class that current_class points to: the innermost class, 0 for NULL
current_class(tr) ==
  IF \E i \in 1..Len(tr) : tr[i].id = "Class"
    THEN CHOOSE i \in 1..Len(tr) :
           tr[i].id = "Class" /\ \A j \in (i + 1)..Len(tr) : tr[j].id # "Class"
    ELSE 0

\* the widget class that current_widget_class points to, 0 for NULL
current_widget_class(tr) ==
  IF \E i \in 1..Len(tr) : tr[i].id = "Widget_Class"
    THEN CHOOSE i \in 1..Len(tr) : tr[i].id = "Widget_Class"
    ELSE 0

\* the keyword of a state: "private:\n", "public:\n", "protected:\n"
public_keyword(state) ==
  IF state = 0 THEN <<112, 114, 105, 118, 97, 116, 101, 58, 10>>
  ELSE IF state = 1 THEN <<112, 117, 98, 108, 105, 99, 58, 10>>
  ELSE IF state = 2 THEN <<112, 114, 111, 116, 101, 99, 116, 101, 100, 58, 10>>
  ELSE <<>>

\* current_class && current_class->write_public_state == state, and the
\* same for current_widget_class
recorded_is(tr, i, state) == i # 0 /\ tr[i].write_public_state = state

\* Fd_Code_Writer::write_public(state): the writer and the classes afterwards
write_public(w, tr, state) ==
  LET cc == current_class(tr)
      cw == current_widget_class(tr)
  IN  IF cc = 0 /\ cw = 0 THEN [w |-> w, tr |-> tr]
      ELSE IF recorded_is(tr, cc, state) THEN [w |-> w, tr |-> tr]
      ELSE IF recorded_is(tr, cw, state) THEN [w |-> w, tr |-> tr]
      ELSE [w  |-> write_h(w, public_keyword(state)),
            tr |-> [i \in 1..Len(tr) |->
                      IF i = cc \/ i = cw
                        THEN [tr[i] EXCEPT !.write_public_state = state]
                        ELSE tr[i]]]

----------------------------------------------------------------------------
(* Fd_Code_Writer::unique_id() and the tree of identifiers (id_root) *)

\* is_id(): c can be in a C identifier
is_id(c) ==
  \/ (c >= 97 /\ c <= 122)
  \/ (c >= 65 /\ c <= 90)
  \/ (c >= 48 /\ c <= 57)
  \/ c = 95

\* char buffer[128]
IdBufferSize == 128

\* room for the hex number, without the NUL
IdHexRoom == 8

\* "%x" of a positive number
RECURSIVE sprintf_x(_)
sprintf_x(n) ==
  IF n < 16 THEN <<HexDigit(n)>>
  ELSE sprintf_x(n \div 16) \o <<HexDigit(n % 16)>>

\* index of the first byte of n that can be in an identifier, Len(n) + 1
\* if there is none
id_start(n) ==
  IF \E i \in 1..Len(n) : is_id(n[i])
    THEN CHOOSE i \in 1..Len(n) :
           is_id(n[i]) /\ \A j \in 1..(i - 1) : ~is_id(n[j])
    ELSE Len(n) + 1

\* index behind the run of identifier bytes of n that starts at from
id_stop(n, from) ==
  IF \E i \in from..Len(n) : ~is_id(n[i])
    THEN CHOOSE i \in from..Len(n) :
           ~is_id(n[i]) /\ \A j \in from..(i - 1) : is_id(n[j])
    ELSE Len(n) + 1

\* the buffer before the tree is searched: type, '_', then the identifier
\* bytes of name, or of label if name is empty, as far as q_end allows
id_buffer(type, name, label) ==
  LET n == IF name # <<>> THEN name ELSE label
      head == type \o <<95>>
      room == Max(0, (IdBufferSize - IdHexRoom - 1) - Len(head))
      Out(from) ==
        head \o SubSeq(n, from, Min(id_stop(n, from) - 1, from + room - 1))
  IN  Out(id_start(n))

\* the owner test (*p)->object == o, forgotten
same_object_never(a, b) == FALSE

\* the owner test (*p)->object == o, always passed
same_object_always(a, b) == TRUE

\* the owner test (*p)->object == o
same_object(a, b) == a = b

\* the search loop: the buffer is looked up in the tree, an entry of the
\* same object is returned, an entry of another object makes the next hex
\* number be printed at q, and a buffer not found is inserted
RECURSIVE unique_id_search(_, _, _, _)
unique_id_search(w, o, base, which) ==
  LET buffer == IF which = 0 THEN base ELSE base \o sprintf_x(which)
      found == { e \in w.id_root : e.text = buffer }
  IN  IF found = {}
        THEN [ w   |-> [w EXCEPT !.id_root = @ \cup {[text |-> buffer, object |-> o]}],
               ret |-> buffer ]
      ELSE IF \E e \in found : same_object(e.object, o)
        THEN [ w |-> w, ret |-> buffer ]
      ELSE unique_id_search(w, o, base, which + 1)

unique_id(w, o, type, name, label) ==
  unique_id_search(w, o, id_buffer(type, name, label), 0)

----------------------------------------------------------------------------
(* The design tree (Fl_Type): what merge_back() uses of it *)

\* Fl_Type::find_by_uid(uid): the position of the node in the tree, 0 for NULL
find_by_uid(tr, uid) ==
  LET hits == {i \in 1..Len(tr) : tr[i].uid = uid}
  IN  IF hits = {} THEN 0 ELSE CHOOSE i \in hits : \A j \in hits : i <= j

\* Fl_Type::is_true_widget()
is_true_widget(node) == node.id \in {"Widget", "MenuItem"}

\* Fl_Type::is_a(ID_Code)
is_a_Code(node) == node.id = "Code"

----------------------------------------------------------------------------
(* Reading the code file back: fgets, strstr, sscanf *)

\* fgets(line, 1023, code): the size given to fgets, one more than it reads
FgetsSize == 1023

\* fgets() at file offset here: the bytes of the line read, <<>> at end of file
fgets(file, here) ==
  LET nl  == IndexFrom(file, NL, here + 1)
      end == IF nl = 0 THEN Len(file) ELSE nl
  IN  SubSeq(file, here + 1, Min(end, here + FgetsSize - 1))

\* strstr(line, "//~fl~"): position of the marker in line, 0 for NULL
strstr(line, marker) ==
  LET hits == {i \in 1..(Len(line) - Len(marker) + 1) :
                 line[i] = marker[1] /\ SubSeq(line, i, i + Len(marker) - 1) = marker}
  IN  IF hits = {} THEN 0 ELSE CHOOSE i \in hits : \A j \in hits : i <= j

IsDigit(c) == c >= 48 /\ c <= 57

\* hexadecimal digits without the letters
IsXDigit_decimal(c) == c >= 48 /\ c <= 57

IsXDigit(c) == IsDigit(c) \/ (c >= 97 /\ c <= 102) \/ (c >= 65 /\ c <= 70)

XDigitVal(c) == IF IsDigit(c) THEN c - 48 ELSE IF c >= 97 THEN c - 87 ELSE c - 55

\* white space skipped in front of a conversion
RECURSIVE scan_skip_space(_, _)
scan_skip_space(s, i) ==
  IF isspace(At(s, i)) THEN scan_skip_space(s, i + 1) ELSE i

\* the run of at most width (hexadecimal) digits at position i
RECURSIVE scan_run(_, _, _, _)
scan_run(s, i, width, hex) ==
  IF width > 0 /\ (IF hex THEN IsXDigit(At(s, i)) ELSE IsDigit(At(s, i)))
  THEN <<At(s, i)>> \o scan_run(s, i + 1, width - 1, hex)
  ELSE <<>>

\* a conversion of sscanf: optional white space, optional sign, [0x,] digits;
\* width 0 stands for no field width.  Result: whether a value was converted,
\* its sign, its digits and the position after it
scan_number(s, i0, width, hex) ==
  LET w     == IF width = 0 THEN 64 ELSE width
      i     == scan_skip_space(s, i0)
      sign  == At(s, i) \in {43, 45}
      i1    == IF sign THEN i + 1 ELSE i
      w1    == IF sign THEN w - 1 ELSE w
      pre   == hex /\ w1 >= 3 /\ At(s, i1) = 48 /\ At(s, i1 + 1) \in {120, 88}
                   /\ IsXDigit(At(s, i1 + 2))
      i2    == IF pre THEN i1 + 2 ELSE i1
      w2    == IF pre THEN w1 - 2 ELSE w1
      run   == scan_run(s, i2, w2, hex)
  IN  [ok     |-> run # <<>>,
       neg    |-> sign /\ At(s, i) = 45,
       digits |-> run,
       next   |-> i2 + Len(run)]

\* value of a run of at most four digits in the given base
RECURSIVE DigitsValue(_, _)
DigitsValue(run, base) ==
  IF run = <<>> THEN 0
  ELSE DigitsValue(SubSeq(run, 1, Len(run) - 1), base) * base + XDigitVal(run[Len(run)])

\* the value an int receives from "%d" or "%04x"
IntValue(num, base) ==
  LET v == DigitsValue(num.digits, base) IN IF num.neg THEN -v ELSE v

\* the value an unsigned long receives from "%08lx": its low 32 bits as hex
\* digits, and whether the bits above them are clear
ULongValue(num) ==
  LET k    == Len(num.digits)
      low  == [i \in 1..8 |-> IF i <= 8 - k THEN 0 ELSE XDigitVal(num.digits[i - (8 - k)])]
      zero == \A i \in 1..8 : low[i] = 0
  IN  [low |-> low, high_clear |-> ~num.neg \/ zero]

\* sscanf(tag, "//~fl~%d~%04x~%08lx~~", &type, &uid, &crc): the number of
\* converted fields n and their values
sscanf_tag(tagtext) ==
  LET Out(d, x, l, n) ==
        [n    |-> n,
         type |-> IF n >= 1 THEN IntValue(d, 10) ELSE -1,
         uid  |-> IF n >= 2 THEN IntValue(x, 16) ELSE 0,
         crc  |-> IF n >= 3 THEN ULongValue(l)
                  ELSE ULongValue([neg |-> FALSE, digits |-> <<>>])]
      Count(d, x, l) ==
        Out(d, x, l, IF ~d.ok THEN 0
                     ELSE IF At(tagtext, d.next) # 126 \/ ~x.ok THEN 1
                     ELSE IF At(tagtext, x.next) # 126 \/ ~l.ok THEN 2
                     ELSE 3)
      Third(d, x)  == Count(d, x, scan_number(tagtext, x.next + 1, 8, TRUE))
      Second(d)    == Third(d, scan_number(tagtext, d.next + 1, 4, TRUE))
  IN  Second(scan_number(tagtext, Len(TagMarker) + 1, 0, FALSE))

\* block_crc_ != crc
crc_differs(block_crc, crc) == ~(crc.high_clear /\ crc.low = block_crc)

----------------------------------------------------------------------------
(* unindent() and unindent_block() *)

\* one iteration of the while loop of unindent(): s is the position of the
\* read pointer in block, d the bytes stored so far, over whether the
\* terminating NUL itself was copied and stepped over
unindent_step(block, st) ==
  LET s1 == IF st.line_start /\ IsPositiveChar(At(block, st.s)) /\ isspace(At(block, st.s))
            THEN st.s + 1 ELSE st.s
      s2 == IF st.line_start /\ IsPositiveChar(At(block, s1)) /\ isspace(At(block, s1))
            THEN s1 + 1 ELSE s1
      s3 == IF At(block, s2) = CR THEN s2 + 1 ELSE s2
  IN  [s          |-> s3 + 1,
       d          |-> IF s3 <= Len(block) THEN Append(st.d, block[s3]) ELSE st.d,
       line_start |-> At(block, s3) = NL,
       over       |-> s3 > Len(block)]

RECURSIVE unindent_run(_, _, _)
unindent_run(block, st, k) ==
  IF st.over \/ At(block, st.s) = NUL \/ k = 0 THEN st
  ELSE unindent_run(block, unindent_step(block, st), k - 1)

RECURSIVE unindent_loop(_, _)
unindent_loop(block, st) ==
  IF st.over \/ At(block, st.s) = NUL THEN st
  ELSE unindent_loop(block, unindent_run(block, st, 16))

\* unindent(s): the string left in the buffer, and whether the loop went on
\* reading behind the terminating NUL of its input
unindent(block) ==
  LET Out(st) == [text |-> st.d, over |-> st.over]
  IN  Out(unindent_loop(block, [s |-> 1, d |-> <<>>, line_start |-> TRUE,
                                over |-> FALSE]))

\* unindent_block(f, start, end): a negative size makes malloc() fail and the
\* store block[bsize] = 0 crash
unindent_block(file, start, end) ==
  LET bsize  == end - start
      Out(u) == [text |-> u.text, over |-> u.over, crash |-> FALSE]
  IN  IF bsize < 0 THEN [text |-> <<>>, over |-> FALSE, crash |-> TRUE]
      ELSE Out(unindent(SubSeq(file, start + 1, end)))

----------------------------------------------------------------------------
(* Fd_Code_Writer::merge_back() *)

\* the locals of one pass of the outer for loop, with the tree being edited
ScanStart(tr) ==
  [ here                  |-> 0,
    line_no               |-> 0,
    block_start           |-> 0,
    block_end             |-> 0,
    num_changed_code      |-> 0,
    num_changed_callback  |-> 0,
    num_changed_structure |-> 0,
    num_uid_not_found     |-> 0,
    tag_error             |-> 0,
    block_crc_            |-> crc32_init,
    block_line_start_     |-> TRUE,
    changed               |-> FALSE,
    tree                  |-> tr,
    crashed               |-> FALSE,
    blocks                |-> <<>> ]

\* task == FD_MERGEBACK_GO: a block whose CRC differs is merged into its node.
\* heap tells what follows the block in memory when unindent() reads on
\* behind it: "clean" stops the loop at once, "dirty" makes it overwrite the
\* heap.  blocks records the byte ranges handed to unindent_block().
merge_block(file, st, type, uid, heap) ==
  LET i   == find_by_uid(st.tree, uid)
      cb  == type = FD_TAG_MENU_CALLBACK \/ type = FD_TAG_WIDGET_CALLBACK
      hit == /\ i # 0
             /\ IF cb THEN is_true_widget(st.tree[i])
                ELSE type = FD_TAG_CODE /\ is_a_Code(st.tree[i])
      Log(u) == Append(st.blocks, [uid |-> uid, start |-> st.block_start,
                                   end |-> st.block_end, over |-> u.over])
      Set(u) ==
        IF u.crash \/ (u.over /\ heap = "dirty")
        THEN [st EXCEPT !.crashed = TRUE, !.blocks = Log(u)]
        ELSE IF cb
        THEN [st EXCEPT !.tree[i].callback = u.text, !.changed = TRUE,
                        !.blocks = Log(u)]
        ELSE [st EXCEPT !.tree[i].name = u.text, !.changed = TRUE, !.blocks = Log(u)]
  IN  IF ~hit THEN st
      ELSE Set(unindent_block(file, st.block_start, st.block_end))

\* a counting that also marks the project as changed
count_block_marking(st, type, uid) ==
  [st EXCEPT !.num_changed_structure = @ + 1, !.changed = TRUE]

\* a counting that takes every uid for the uid of a node
count_block_found(st, type, uid) ==
  IF type = FD_TAG_GENERIC
  THEN [st EXCEPT !.num_changed_structure = @ + 1]
  ELSE IF type = FD_TAG_CODE
  THEN [st EXCEPT !.num_changed_code = @ + 1]
  ELSE [st EXCEPT !.num_changed_callback = @ + 1]

\* any other task: a block whose CRC differs is counted
count_block(st, type, uid) ==
  LET find_node == type \in {FD_TAG_CODE, FD_TAG_MENU_CALLBACK, FD_TAG_WIDGET_CALLBACK}
      st1 == IF type = FD_TAG_GENERIC
             THEN [st EXCEPT !.num_changed_structure = @ + 1]
             ELSE IF type = FD_TAG_CODE
             THEN [st EXCEPT !.num_changed_code = @ + 1]
             ELSE [st EXCEPT !.num_changed_callback = @ + 1]
  IN  IF find_node /\ find_by_uid(st.tree, uid) = 0
      THEN [st1 EXCEPT !.num_uid_not_found = @ + 1]
      ELSE st1

\* a reader that accepts every tag line
tag_ok_lenient(t) == TRUE

\* the tag is accepted
tag_ok(t) == ~(t.n # 3 \/ t.type < 0 \/ t.type > FD_TAG_LAST)

\* the else branch of the inner loop: a line that holds the marker
scan_tag(file, st, task, tagtext, heap) ==
  LET Reset(st1) == [st1 EXCEPT !.block_crc_ = crc32_init,
                                !.block_line_start_ = TRUE,
                                !.block_start = st.here]
      Block(t) ==
        IF ~tag_ok(t) THEN [st EXCEPT !.tag_error = 1]
        ELSE Reset(IF crc_differs(st.block_crc_, t.crc)
                   THEN IF task = FD_MERGEBACK_GO
                        THEN merge_block(file, st, t.type, t.uid, heap)
                        ELSE count_block(st, t.type, t.uid)
                   ELSE st)
  IN  Block(sscanf_tag(tagtext))

\* the inner for (;;) loop: one line per round
RECURSIVE scan_lines(_, _, _, _)
scan_lines(file, st, task, heap) ==
  LET line == fgets(file, st.here)
      st1  == [st EXCEPT !.here = @ + Len(line), !.line_no = @ + 1]
      tg   == strstr(line, TagMarker)
      Added(c) == [st1 EXCEPT !.block_crc_ = c.crc, !.block_line_start_ = c.ls,
                              !.block_end = st1.here]
      Tagged(st2) == IF st2.tag_error = 1 THEN st2 ELSE scan_lines(file, st2, task, heap)
  IN  IF line = <<>> \/ st.crashed THEN st
      ELSE IF tg = 0
      THEN scan_lines(file,
                      Added(crc_add_acc(st.block_crc_, st.block_line_start_, line,
                                        strlen(line))),
                      task, heap)
      ELSE Tagged(scan_tag(file, st1, task, SubSeq(line, tg, Len(line)), heap))

\* result bits with code and callback exchanged
check_bits_swapped(st) ==
    (IF st.num_changed_structure # 0 THEN 1 ELSE 0)
  + (IF st.num_changed_callback # 0 THEN 2 ELSE 0)
  + (IF st.num_changed_code # 0 THEN 4 ELSE 0)
  + (IF st.num_uid_not_found # 0 THEN 8 ELSE 0)

\* the result bits of FD_MERGEBACK_CHECK
check_bits(st) ==
    (IF st.num_changed_structure # 0 THEN 1 ELSE 0)
  + (IF st.num_changed_code # 0 THEN 2 ELSE 0)
  + (IF st.num_changed_callback # 0 THEN 4 ELSE 0)
  + (IF st.num_uid_not_found # 0 THEN 8 ELSE 0)

\* the task after a scan is FD_MERGEBACK_GO
IsGo(task) == task = FD_MERGEBACK_GO

\* a FD_MERGEBACK_GO_SAFE that never gives up
go_safe_never(st) == FALSE

\* FD_MERGEBACK_GO_SAFE gives up
go_safe_conflict(st) == st.tag_error # 0 \/ st.num_changed_structure # 0

\* the outer for (iter = 0; ; ++iter) loop from pass iter on.  c is the answer
\* of fl_choice() (0 Cancel, 1 Merge).  code is the state of the FILE that
\* fl_fopen() returned: every break leads to fclose(code)
RECURSIVE merge_back_from(_, _, _, _, _, _)
merge_back_from(file, tr, task, c, heap, iter) ==
  LET Return(st, ret, asked) ==
        [ret |-> ret, changed |-> st.changed, tree |-> st.tree, crashed |-> FALSE,
         scans |-> iter + 1, asked |-> asked, st |-> st, code |-> "closed"]
      no_change(st) == st.num_changed_code = 0 /\ st.num_changed_callback = 0
      After(st) ==
        IF st.crashed
        THEN [ret |-> 0, changed |-> st.changed, tree |-> st.tree, crashed |-> TRUE,
              scans |-> iter + 1, asked |-> FALSE, st |-> st, code |-> "open"]
        ELSE IF task = FD_MERGEBACK_CHECK
        THEN IF st.tag_error # 0 THEN Return(st, -1, FALSE)
             ELSE Return(st, check_bits(st), FALSE)
        ELSE IF task = FD_MERGEBACK_INTERACTIVE
        THEN IF st.tag_error # 0 THEN Return(st, -1, FALSE)
             ELSE IF no_change(st) /\ st.num_changed_structure = 0
             THEN Return(st, 0, FALSE)
             ELSE IF st.num_changed_structure # 0 /\ no_change(st)
             THEN Return(st, -1, FALSE)
             ELSE IF c = 0 THEN Return(st, 1, TRUE)
             ELSE merge_back_from(file, st.tree, FD_MERGEBACK_GO, c, heap, iter + 1)
        ELSE IF IsGo(task)
        THEN Return(st, IF st.changed THEN 1 ELSE 0, FALSE)
        ELSE IF go_safe_conflict(st) THEN Return(st, -1, FALSE)
             ELSE IF no_change(st) THEN Return(st, 0, FALSE)
             ELSE merge_back_from(file, st.tree, FD_MERGEBACK_GO, c, heap, iter + 1)
  IN  After(scan_lines(file, ScanStart(tr), task, heap))

\* merge_back(s, task) on the code file with content file
merge_back(file, tr, task, c, heap) ==
  IF ~g_project.write_mergeback_data
  THEN [ret |-> 0, changed |-> FALSE, tree |-> tr, crashed |-> FALSE,
        scans |-> 0, asked |-> FALSE, st |-> ScanStart(tr), code |-> "none"]
  ELSE merge_back_from(file, tr, task, c, heap, 0)

----------------------------------------------------------------------------
(* The design: nodes and the code their write_code1() hooks produce *)

WidgetNode(uid, cb)   == [uid |-> uid, id |-> "Widget",   callback |-> cb,   name |-> <<>>]
MenuItemNode(uid, cb) == [uid |-> uid, id |-> "MenuItem", callback |-> cb,   name |-> <<>>]
CodeNode(uid, code)   == [uid |-> uid, id |-> "Code",     callback |-> <<>>, name |-> code]

\* "// generated by Fast Light User Interface Designer (fluid) version %.4f\n\n"
\* for FL_VERSION 1.0400
Banner ==
  <<47, 47, 32, 103, 101, 110, 101, 114, 97, 116, 101, 100, 32, 98, 121, 32, 70, 97, 115, 116, 32, 76, 105, 103, 104, 116, 32, 85, 115, 101, 114, 32, 73, 110, 116, 101, 114, 102, 97, 99, 101, 32, 68, 101, 115, 105, 103, 110, 101, 114, 32, 40, 102, 108, 117, 105, 100, 41, 32, 118, 101, 114, 115, 105, 111, 110, 32, 49, 46, 48, 52, 48, 48, 10, 10>>

\* a callback of one line that, indented by two blanks, is as long as
\* block_buffer_size_ after the banner was written
LongCallback ==
  [i \in 1..(Len(Banner) + BlockBufferSlack - 1) |->
     IF i = Len(Banner) + BlockBufferSlack - 1 THEN NL
     ELSE IF i = Len(Banner) + BlockBufferSlack - 2 THEN 59 ELSE 120]

\* the nodes a design is made of: widgets with the callbacks "a;\n" and the
\* long one, a code block "c;\n", a menu item with the callback "b;"
NodeChoices ==
  { WidgetNode(1, <<97, 59, 10>>), WidgetNode(1, LongCallback),
    CodeNode(2, <<99, 59, 10>>), MenuItemNode(3, <<98, 59>>) }

\* the largest number of nodes of a design
MaxNodes == 2

\* the designs of up to n nodes; uids grow along the tree
RECURSIVE DesignsOf(_)
DesignsOf(n) ==
  IF n = 0 THEN {<<>>}
  ELSE LET shorter == DesignsOf(n - 1)
       IN  shorter \cup
           {Append(d, nd) : d \in {e \in shorter : Len(e) = n - 1}, nd \in NodeChoices}

\* the largest number of bytes of callbacks and code in a design
MaxDesignBytes == 202

RECURSIVE DesignBytes(_)
DesignBytes(d) ==
  IF d = <<>> THEN 0
  ELSE Len(d[1].callback) + Len(d[1].name) + DesignBytes(Tail(d))

Designs ==
  {d \in DesignsOf(MaxNodes) :
     /\ \A i, j \in 1..Len(d) : i < j => d[i].uid < d[j].uid
     /\ DesignBytes(d) <= MaxDesignBytes}

\* Fl_Widget_Type::write_code1() and Fl_Menu_Item_Type: the widget's code,
\* closed as a generic block, then the callback as a block of its own
write_code1_widget(w, node) ==
  LET w1 == write_c(w, <<119, 40, 41, 59, 10>>)
      w2 == tag(w1, FD_TAG_GENERIC, 0)
      w3 == write_c_indented(w2, node.callback, 1, NL)
  IN  tag(w3, IF node.id = "MenuItem" THEN FD_TAG_MENU_CALLBACK
              ELSE FD_TAG_WIDGET_CALLBACK, node.uid)

\* Fl_Code_Type::write_code1(): the code is a block of its own
write_code1_code(w, node) ==
  LET w1 == tag(w, FD_TAG_GENERIC, 0)
      w2 == write_c_indented(w1, node.name, 0, NL)
  IN  tag(w2, FD_TAG_CODE, node.uid)

\* p->write_code1(*this)
write_code1(w, node) ==
  IF node.id = "Code" THEN write_code1_code(w, node) ELSE write_code1_widget(w, node)

----------------------------------------------------------------------------
(* Fd_Code_Writer::write_code(Fl_Type* p): the walk over a tree with children *)

\* The nodes are kept in the order of Fl_Type::next, each with its level;
\* node i stands for a pointer, Len(tr) + 1 for the NULL behind the last
\* node.  The hooks write_code1() and write_code2() of a node are recorded
\* in the order in which they are called.

\* p->is_widget() && p->is_class()
is_widget_class(node) == node.id = "Widget_Class"

\* q->is_a(ID_Function)
is_a_Function(node) == node.id = "Function"

\* p == Fl_Type::last && p->is_a(ID_Comment)
is_last_comment(tr, i) == i = Len(tr) /\ tr[i].id = "Comment"

\* do { q = q->next; } while (q && q->level > level);
RECURSIVE skip_subtree(_, _, _)
skip_subtree(tr, q, level) ==
  IF q + 1 <= Len(tr) /\ tr[q + 1].level > level
    THEN skip_subtree(tr, q + 1, level)
    ELSE q + 1

\* a walk that goes into every child in each of its loops
wanted_child_any(mode, node) == TRUE

\* the child q is written by the loop: the only loop of a node that is no
\* widget class goes into every child, the first loop of a widget class
\* into the children that are no functions, its second into the functions
wanted_child(mode, node) ==
  \/ mode = "all"
  \/ mode = "not_function" /\ ~is_a_Function(node)
  \/ mode = "function" /\ is_a_Function(node)

RECURSIVE write_code_p(_, _, _)
RECURSIVE write_code_children(_, _, _, _, _)

\* a for loop over the children of a node at level: the subtrees of the
\* children that the loop does not write are skipped; st.q is the pointer q
write_code_children(st, tr, q, level, mode) ==
  IF q > Len(tr) \/ tr[q].level <= level THEN [st EXCEPT !.q = q]
  ELSE IF wanted_child(mode, tr[q])
    THEN LET Go(r) == write_code_children(r, tr, r.q, level, mode)
         IN  Go(write_code_p(st, tr, q))
  ELSE write_code_children(st, tr, skip_subtree(tr, q, tr[q].level), level, mode)

\* Fd_Code_Writer::write_code(Fl_Type* p): st.w is the writer, st.trace the
\* hooks called so far, st.q the node returned
write_code_p(st, tr, i) ==
  LET Hook(a, ev) == [a EXCEPT !.trace = Append(@, [ev |-> ev, node |-> i])]
      st1 == IF is_last_comment(tr, i) THEN st ELSE Hook(st, "write_code1")
  IN  IF is_widget_class(tr[i])
        THEN LET Close(a) == [a EXCEPT !.w = write_h(a.w, <<125, 59, NL>>),
                                       !.trace = Append(@, [ev |-> "write_h", node |-> i])]
                 Later(a) == Close(write_code_children(a, tr, i + 1, tr[i].level,
                                                       "function"))
                 Code2(a) == Later(Hook(a, "write_code2"))
             IN  Code2(write_code_children(st1, tr, i + 1, tr[i].level, "not_function"))
        ELSE Hook(write_code_children(st1, tr, i + 1, tr[i].level, "all"),
                  "write_code2")

----------------------------------------------------------------------------
(* Fd_Code_Writer::write_code(s, t): open, one top-level node at a time, close *)

Init ==
  /\ pc = "idle"
  /\ g_project \in [write_mergeback_data : BOOLEAN, utf8_in_src : {FALSE}]
  /\ tree \in Designs
  /\ f = Fd_Code_Writer
  /\ emitted = <<>>
  /\ edits = <<>>
  /\ modflag = 0
  /\ p = 0
  /\ mb = [task |-> -1]
  /\ last = [op |-> "none"]

\* the entry of write_code(): the tree of identifiers is deleted and the
\* indentation is reset
write_code_reset(w) == [w EXCEPT !.id_root = {}, !.indentation = 0]

\* fl_fopen(name, "w") has succeeded: the file is empty
fl_fopen(w, file) ==
  IF file = "code" THEN [w EXCEPT !.code_file = <<>>]
  ELSE [w EXCEPT !.header_file = <<>>]

\* from the opened files to the for loop over the top-level nodes: the
\* banner goes to both files, the include guard (for t = "D.h") and the FLTK
\* include to the header
write_code_begin(w) ==
  LET w0 == [w EXCEPT !.header_file = @ \o Banner]
      w1 == crc_vprintf(w0, Banner)
      w2 == [w1 EXCEPT !.header_file = @ \o <<35, 105, 102, 110, 100, 101, 102, 32, 68, 95, 104, 10, 35, 100, 101, 102, 105, 110, 101, 32, 68, 95, 104, 10>>]
  IN  write_h_once(w2, <<35, 105, 110, 99, 108, 117, 100, 101, 32, 60, 70, 76, 47, 70, 108, 46, 72, 62>>).w

\* after the loop, when s is not NULL: "#endif" to the header
write_code_end(w) ==
  [w EXCEPT !.header_file = @ \o <<35, 101, 110, 100, 105, 102, 10>>]

\* from the entry of write_code() to the for loop over the top-level nodes:
\* both files are opened and the head of both files is written
WriteCodeOpen ==
  /\ pc = "idle"
  /\ f' = write_code_begin(fl_fopen(fl_fopen(write_code_reset(f), "code"), "header"))
  /\ pc' = "write"
  /\ p' = 1
  /\ UNCHANGED <<g_project, tree, emitted, edits, modflag, mb, last>>

\* one round of the for loop: p = write_code(p)
WriteCodeNode ==
  /\ pc = "write"
  /\ p <= Len(tree)
  /\ f' = write_code1(f, tree[p])
  /\ p' = p + 1
  /\ UNCHANGED <<pc, g_project, tree, emitted, edits, modflag, mb, last>>

\* after the loop: "#endif" to the header, both files are closed
WriteCodeClose ==
  /\ pc = "write"
  /\ p > Len(tree)
  /\ f' = write_code_end(f)
  /\ emitted' = f.code_file
  /\ pc' = "closed"
  /\ UNCHANGED <<g_project, tree, edits, modflag, p, mb, last>>

----------------------------------------------------------------------------
(* The code file between write_code() and merge_back(): edits by the user *)

\* the lines of the file as fgets() will deliver them
RECURSIVE FileLines(_, _)
FileLines(file, here) ==
  LET line == fgets(file, here)
  IN  IF line = <<>> THEN <<>>
      ELSE <<[start |-> here, len |-> Len(line), tag |-> strstr(line, TagMarker)]>>
           \o FileLines(file, here + Len(line))

IsTagLine(l) == l.tag # 0

TagLines(file) == SelectSeq(FileLines(file, 0), IsTagLine)

\* block k is the text between tag line k - 1 and tag line k
BlockStart(file, k) ==
  IF k = 1 THEN 0 ELSE TagLines(file)[k - 1].start + TagLines(file)[k - 1].len

BlockEnd(file, k) == TagLines(file)[k].start

BlockText(file, k) == SubSeq(file, BlockStart(file, k) + 1, BlockEnd(file, k))

\* the fields, as sscanf() reads them, of tag line k
TagOf(file, k) ==
  LET l == TagLines(file)[k]
  IN  sscanf_tag(SubSeq(file, l.start + l.tag, l.start + l.len))

TagKind(file, k) == TagOf(file, k).type

TagUid(file, k) == TagOf(file, k).uid

Splice(file, from, to, text) ==
  SubSeq(file, 1, from) \o text \o SubSeq(file, to + 1, Len(file))

\* the texts a user replaces a block with: nothing, "  x;\n", "y;\n\n"
EditTexts == { <<>>, <<32, 32, 120, 59, 10>>, <<121, 59, 10, 10>> }

\* the ways a user changes a tag line
TagEdits == {"no_tail", "blank", "prefix", "upper", "short", "kind", "sep", "junk"}

\* those that leave fewer than three fields for sscanf() or a kind outside 0..3
Malformed == {"kind", "sep", "junk"}

ToUpper(c) == IF c >= 97 /\ c <= 102 THEN c - 32 ELSE c

\* tag line k ("//~fl~K~UUUU~CCCCCCCC~~\n" from byte t + 1 on) after the change
EditedTag(file, k, how) ==
  LET t == TagLines(file)[k].start
  IN  CASE how = "no_tail" -> Splice(file, t + 21, t + 23, <<>>)
        [] how = "blank"   -> Splice(file, t + 6, t + 6, <<SP>>)
        [] how = "prefix"  -> Splice(file, t, t, <<122, 59, 32>>)
        [] how = "upper"   -> Splice(file, t + 13, t + 21,
                                     [i \in 1..8 |-> ToUpper(file[t + 13 + i])])
        [] how = "short"   -> Splice(file, t + 8, t + 11, <<>>)
        [] how = "kind"    -> Splice(file, t + 6, t + 7, <<55>>)
        [] how = "sep"     -> Splice(file, t + 7, t + 8, <<45>>)
        [] OTHER           -> Splice(file, t + 13, t + 14, <<120>>)

\* the largest number of edits of the file between write_code() and merge_back()
MaxEdits == 1

IsFileEdit(e) == e.op # "remove"

FileEdits == SelectSeq(edits, IsFileEdit)

CanEdit ==
  /\ pc = "closed"
  /\ Len(FileEdits) < MaxEdits

Edit(op, k, text, how) ==
  [op |-> op, k |-> k, text |-> text, how |-> how,
   kind |-> TagKind(emitted, k), uid |-> TagUid(emitted, k)]

\* the user replaces the text of block k
ReplaceBlock ==
  /\ CanEdit
  /\ \E k \in 1..Len(TagLines(emitted)) : \E text \in EditTexts :
       /\ text # BlockText(emitted, k)
       /\ emitted' = Splice(emitted, BlockStart(emitted, k), BlockEnd(emitted, k), text)
       /\ edits' = Append(edits, Edit("replace", k, text, ""))
  /\ UNCHANGED <<pc, g_project, tree, f, modflag, p, mb, last>>

\* the user indents the first line of block k by two more blanks
IndentLine ==
  /\ CanEdit
  /\ \E k \in 1..Len(TagLines(emitted)) :
       /\ BlockText(emitted, k) # <<>>
       /\ emitted' = Splice(emitted, BlockStart(emitted, k), BlockStart(emitted, k),
                            <<SP, SP>>)
       /\ edits' = Append(edits, Edit("indent", k, <<SP, SP>>, ""))
  /\ UNCHANGED <<pc, g_project, tree, f, modflag, p, mb, last>>

\* the user's editor ends the first line of block k with CR LF
CrLfLine ==
  /\ CanEdit
  /\ \E k \in 1..Len(TagLines(emitted)) :
       LET nl == strchr(BlockText(emitted, k), NL)
       IN  /\ nl # 0
           /\ emitted' = Splice(emitted, BlockStart(emitted, k) + nl - 1,
                                BlockStart(emitted, k) + nl - 1, <<CR>>)
           /\ edits' = Append(edits, Edit("crlf", k, <<CR>>, ""))
  /\ UNCHANGED <<pc, g_project, tree, f, modflag, p, mb, last>>

\* the user changes tag line k of the file as it was written, or damages the
\* last tag line of a file in which a block was replaced
EditTag ==
  /\ pc = "closed"
  /\ \E k \in 1..Len(TagLines(emitted)) : \E how \in TagEdits :
       /\ \/ edits = <<>>
          \/ /\ Len(edits) = 1 /\ edits[1].op = "replace"
             /\ k = Len(TagLines(emitted)) /\ how \in Malformed
       /\ EditedTag(emitted, k, how) # emitted
       /\ emitted' = EditedTag(emitted, k, how)
       /\ edits' = Append(edits, Edit("tag", k, <<>>, how))
  /\ UNCHANGED <<pc, g_project, tree, f, modflag, p, mb, last>>

\* the user deletes node i from the design, before the file is touched
RemoveNode ==
  /\ pc = "closed"
  /\ edits = <<>>
  /\ \E i \in 1..Len(tree) :
       /\ tree' = SubSeq(tree, 1, i - 1) \o SubSeq(tree, i + 1, Len(tree))
       /\ edits' = Append(edits, [op |-> "remove", k |-> 0, text |-> <<>>, how |-> "",
                                  kind |-> -1, uid |-> tree[i].uid])
  /\ UNCHANGED <<pc, g_project, f, emitted, modflag, p, mb, last>>

----------------------------------------------------------------------------
(* merge_back(s, task) as one step *)

Tasks == {FD_MERGEBACK_CHECK, FD_MERGEBACK_INTERACTIVE, FD_MERGEBACK_GO,
          FD_MERGEBACK_GO_SAFE}

\* unindent() read behind some block in the call with outcome r
ReadBehind(r) == \E i \in 1..Len(r.st.blocks) : r.st.blocks[i].over

MergeBack ==
  /\ pc = "closed"
  /\ \E task \in Tasks :
     \E c \in (IF task = FD_MERGEBACK_INTERACTIVE THEN {0, 1} ELSE {0}) :
     \E clean \in {merge_back(emitted, tree, task, c, "clean")} :
     \E heap \in {"clean"} \cup (IF ReadBehind(clean) THEN {"dirty"} ELSE {}) :
     \E r \in {IF heap = "clean" THEN clean
                ELSE merge_back(emitted, tree, task, c, "dirty")} :
       /\ mb' = [task |-> task, c |-> c, heap |-> heap, ret |-> r.ret,
                 crashed |-> r.crashed, changed |-> r.changed,
                 scans |-> r.scans, asked |-> r.asked, st |-> r.st, code |-> r.code,
                 tree0 |-> tree, modflag0 |-> modflag]
       /\ tree' = r.tree
       /\ modflag' = IF r.changed /\ ~r.crashed THEN 1 ELSE modflag
       /\ pc' = IF r.crashed THEN "crashed" ELSE "merged"
  /\ UNCHANGED <<g_project, f, emitted, edits, p, last>>

Next ==
  \/ WriteCodeOpen
  \/ WriteCodeNode
  \/ WriteCodeClose
  \/ ReplaceBlock
  \/ IndentLine
  \/ CrLfLine
  \/ EditTag
  \/ RemoveNode
  \/ MergeBack

Spec == Init /\ [][Next]_vars

----------------------------------------------------------------------------
(* The writer's calls one by one, as a node's write_code1() may make them *)

\* the largest number of calls made on the writer
MaxCalls == 4

\* the texts written: "a", "b\n", " c"
ApiTexts == { <<97>>, <<98, 10>>, <<32, 99>> }

\* the lines written once: "#include <FL/Fl.H>", "x"
OnceLines == { <<35, 105, 110, 99, 108, 117, 100, 101, 32, 60, 70, 76, 47, 70, 108, 46, 72, 62>>, <<120>> }

InitW ==
  /\ pc = "api"
  /\ g_project \in [write_mergeback_data : BOOLEAN, utf8_in_src : {FALSE}]
  /\ tree = <<>>
  /\ f = Fd_Code_Writer
  /\ emitted = <<>>
  /\ edits = <<>>
  /\ modflag = 0
  /\ p = 0
  /\ mb = [task |-> -1]
  /\ last = [op |-> "none", n |-> 0]

CanCall ==
  /\ pc = "api"
  /\ last.n < MaxCalls

ApiWriteC ==
  /\ CanCall
  /\ \E text \in ApiTexts :
       /\ f' = write_c(f, text)
       /\ last' = [op |-> "write_c", n |-> last.n + 1, arg |-> text, ret |-> 0,
                   before |-> f]
  /\ UNCHANGED <<pc, g_project, tree, emitted, edits, modflag, p, mb>>

\* write_c() with a format whose output is exactly as long as the block
\* buffer has become
ApiWriteCFull ==
  /\ CanCall
  /\ f.block_buffer_size_ > 0
  /\ \E text \in {[i \in 1..f.block_buffer_size_ |-> 120]} :
       /\ f' = write_c(f, text)
       /\ last' = [op |-> "write_c", n |-> last.n + 1, arg |-> text, ret |-> 0,
                   before |-> f]
  /\ UNCHANGED <<pc, g_project, tree, emitted, edits, modflag, p, mb>>

ApiTag ==
  /\ CanCall
  /\ \E type \in {FD_TAG_GENERIC, FD_TAG_WIDGET_CALLBACK} :
       /\ f' = tag(f, type, 7)
       /\ last' = [op |-> "tag", n |-> last.n + 1, arg |-> <<type>>, ret |-> 0,
                   before |-> f]
  /\ UNCHANGED <<pc, g_project, tree, emitted, edits, modflag, p, mb>>

ApiWriteCOnce ==
  /\ CanCall
  /\ \E line \in OnceLines :
       /\ f' = write_c_once(f, line).w
       /\ last' = [op |-> "write_c_once", n |-> last.n + 1, arg |-> line,
                   ret |-> write_c_once(f, line).ret, before |-> f]
  /\ UNCHANGED <<pc, g_project, tree, emitted, edits, modflag, p, mb>>

ApiWriteHOnce ==
  /\ CanCall
  /\ \E line \in OnceLines :
       /\ f' = write_h_once(f, line).w
       /\ last' = [op |-> "write_h_once", n |-> last.n + 1, arg |-> line,
                   ret |-> write_h_once(f, line).ret, before |-> f]
  /\ UNCHANGED <<pc, g_project, tree, emitted, edits, modflag, p, mb>>

NextW ==
  \/ ApiWriteC
  \/ ApiWriteCFull
  \/ ApiTag
  \/ ApiWriteCOnce
  \/ ApiWriteHOnce

SpecW == InitW /\ [][NextW]_vars

----------------------------------------------------------------------------
(* crc_add() on two byte streams that differ by one inserted byte *)

\* the longest stream fed to crc_add()
MaxLen == 4

\* the bytes of the streams: 'a', blank, newline, carriage return
StreamBytes == {97, SP, NL, CR}

Streams == UNION {[1..n -> StreamBytes] : n \in 0..MaxLen}

InitCrc ==
  /\ pc = "crc"
  /\ g_project = [write_mergeback_data |-> TRUE, utf8_in_src |-> FALSE]
  /\ tree = <<>>
  /\ f = Fd_Code_Writer
  /\ emitted = <<>>
  /\ edits = <<>>
  /\ modflag = 0
  /\ p = 0
  /\ mb = [task |-> -1]
  /\ last = [op |-> "none"]

\* crc_add(s) and crc_add(t) from the same accumulator, t being s with a
\* carriage return inserted behind byte i
CrcAddCr ==
  /\ pc = "crc"
  /\ \E s \in Streams : \E i \in 0..Len(s) : \E ls \in BOOLEAN :
       LET t  == Splice(s, i, i, <<CR>>)
           w0 == [f EXCEPT !.block_line_start_ = ls]
       IN  last' = [op |-> "cr", s |-> s, t |-> t, i |-> i, ls |-> ls,
                    a |-> crc_add(w0, s, Len(s)).block_crc_,
                    b |-> crc_add(w0, t, Len(t)).block_crc_]
  /\ pc' = "fed"
  /\ UNCHANGED <<g_project, tree, f, emitted, edits, modflag, p, mb>>

\* crc_add(s) and crc_add(t) from the same accumulator, t being s with a
\* blank inserted at the start of a line
CrcAddBlank ==
  /\ pc = "crc"
  /\ \E s \in Streams : \E i \in 0..Len(s) : \E ls \in BOOLEAN :
       LET t  == Splice(s, i, i, <<SP>>)
           w0 == [f EXCEPT !.block_line_start_ = ls]
       IN  /\ IF i = 0 THEN ls ELSE s[i] = NL
           /\ last' = [op |-> "blank", s |-> s, t |-> t, i |-> i, ls |-> ls,
                       a |-> crc_add(w0, s, Len(s)).block_crc_,
                       b |-> crc_add(w0, t, Len(t)).block_crc_]
  /\ pc' = "fed"
  /\ UNCHANGED <<g_project, tree, f, emitted, edits, modflag, p, mb>>

NextCrc ==
  \/ CrcAddCr
  \/ CrcAddBlank

SpecCrc == InitCrc /\ [][NextCrc]_vars

----------------------------------------------------------------------------
(* unique_id() called by the nodes of one pass of write_code() *)

\* the largest number of calls of unique_id()
MaxIdCalls == 4

\* the number of objects that ask for an identifier
MaxObjects == 3

\* a name of 120 bytes 'n' and one more byte
LongName(c) == [i \in 1..121 |-> IF i <= 120 THEN 110 ELSE c]

\* name and label of an object: name "n", label "-n" without a name,
\* name "n1", and two names that differ in their 121st byte only
IdNames ==
  { [name |-> <<110>>, label |-> <<>>],
    [name |-> <<>>, label |-> <<45, 110>>],
    [name |-> <<110, 49>>, label |-> <<>>],
    [name |-> LongName(97), label |-> <<>>],
    [name |-> LongName(98), label |-> <<>>] }

\* the type "o"
IdType == <<111>>

InitId ==
  /\ pc = "ids"
  /\ g_project \in [write_mergeback_data : {FALSE}, utf8_in_src : {FALSE}]
  /\ tree = <<>>
  /\ f = Fd_Code_Writer
  /\ emitted = <<>>
  /\ edits = <<>>
  /\ modflag = 0
  /\ p = 0
  /\ mb = [task |-> -1]
  /\ last = [op |-> "none", n |-> 0, first |-> {}, given |-> {}]

\* one call of unique_id(); the calls made so far are kept in last: first
\* has the result of the first call of each object with each arguments,
\* given has every result with the object it was returned to
UniqueId ==
  /\ pc = "ids"
  /\ last.n < MaxIdCalls
  /\ \E o \in 1..MaxObjects, a \in IdNames :
       \E r \in {unique_id(f, o, IdType, a.name, a.label)} :
         /\ f' = r.w
         /\ last' = [op |-> "unique_id", n |-> last.n + 1,
                     arg |-> [o |-> o, type |-> IdType, name |-> a.name,
                              label |-> a.label],
                     ret |-> r.ret, before |-> f,
                     first |->
                       IF \E c \in last.first :
                            c.o = o /\ c.name = a.name /\ c.label = a.label
                         THEN last.first
                         ELSE last.first \cup
                                {[o |-> o, name |-> a.name, label |-> a.label,
                                  ret |-> r.ret]},
                     given |-> last.given \cup {[text |-> r.ret, object |-> o]}]
  /\ UNCHANGED <<pc, g_project, tree, emitted, edits, modflag, p, mb>>

NextId ==
  \/ UniqueId

SpecId == InitId /\ [][NextId]_vars

----------------------------------------------------------------------------
(* write_code(s, t) called again on the same writer, with s or t NULL, and *)
(* with files that cannot be opened                                        *)

\* the largest number of calls of write_code() on one writer
MaxPasses == 2

\* a file name that is NULL
NoPath == "NULL"

InitWc ==
  /\ pc = "idle"
  /\ g_project \in [write_mergeback_data : BOOLEAN, utf8_in_src : {FALSE}]
  /\ tree \in Designs
  /\ f = Fd_Code_Writer
  /\ emitted = <<>>
  /\ edits = <<>>
  /\ modflag = 0
  /\ p = 0
  /\ mb = [task |-> -1]
  /\ last = [op |-> "none", s |-> NoPath, t |-> NoPath, failed |-> "none",
             opened |-> {}, closed |-> <<>>, out |-> <<>>]

\* the stream behind code_file and behind header_file
StreamOf(file, path) == IF path = NoPath THEN "stdout" ELSE file

\* what a call of write_code() has left: the bytes of both files and the
\* value returned
Outcome(w, ret) == [code |-> w.code_file, header |-> w.header_file, ret |-> ret]

\* write_code(s, t) up to the for loop: the writer is reset, s is opened
\* unless it is NULL, then t; a file that cannot be opened ends the call.
\* A further call is made with the file names of the first.
WcOpen ==
  /\ pc \in {"idle", "returned"}
  /\ Len(last.out) < MaxPasses
  /\ \E s \in {NoPath, "D.cxx"}, t \in {NoPath, "D.h"}, okS \in BOOLEAN, okT \in BOOLEAN :
       /\ s = NoPath => okS
       /\ t = NoPath => okT
       /\ last.out # <<>> => (s = last.s /\ t = last.t)
       /\ \E w \in {write_code_reset(f)} :
            IF ~okS
              THEN /\ f' = w
                   /\ pc' = "returned"
                   /\ p' = 0
                   /\ last' = [last EXCEPT !.op = "write_code", !.s = s, !.t = t,
                                 !.failed = "code", !.opened = {}, !.closed = <<>>,
                                 !.out = Append(@, Outcome(w, 0))]
            ELSE \E wc \in {IF s = NoPath THEN w ELSE fl_fopen(w, "code")} :
              IF ~okT
                THEN /\ f' = wc
                     /\ pc' = "returned"
                     /\ p' = 0
                     /\ last' = [last EXCEPT !.op = "write_code", !.s = s, !.t = t,
                                   !.failed = "header",
                                   !.opened = {StreamOf("code", s)} \ {"stdout"},
                                   !.closed = <<StreamOf("code", s)>>,
                                   !.out = Append(@, Outcome(wc, 0))]
              ELSE /\ f' = write_code_begin(IF t = NoPath THEN wc ELSE fl_fopen(wc, "header"))
                   /\ pc' = "write"
                   /\ p' = 1
                   /\ last' = [last EXCEPT !.op = "write_code", !.s = s, !.t = t,
                                 !.failed = "none",
                                 !.opened = {StreamOf("code", s), StreamOf("header", t)} \ {"stdout"},
                                 !.closed = <<>>]
  /\ UNCHANGED <<g_project, tree, emitted, edits, modflag, mb>>

\* after the loop: with s NULL the call returns 1 at once; otherwise "#endif"
\* goes to the header and each file that is not stdout is closed
WcReturn ==
  /\ pc = "write"
  /\ last.op = "write_code"
  /\ p > Len(tree)
  /\ IF last.s = NoPath
       THEN /\ f' = f
            /\ last' = [last EXCEPT !.out = Append(@, Outcome(f, 1))]
       ELSE /\ f' = write_code_end(f)
            /\ last' = [last EXCEPT
                 !.closed = <<"code">> \o
                            (IF last.t = NoPath THEN <<>> ELSE <<"header">>),
                 !.out = Append(@, Outcome(write_code_end(f), 1))]
  /\ pc' = "returned"
  /\ UNCHANGED <<g_project, tree, emitted, edits, modflag, p, mb>>

NextWc ==
  \/ WcOpen
  \/ WriteCodeNode
  \/ WcReturn

SpecWc == InitWc /\ [][NextWc]_vars

----------------------------------------------------------------------------
(* One writing call on a new writer, with or without varused_test set *)

\* the largest number of bytes of a string behind its padding
MaxTail == 2

\* the bytes of the strings: a 1 f ? " ' \ newline, 0x01, 0x7f, and the two
\* bytes of a UTF-8 sequence
StrBytes == {97, 49, 102, 63, 34, 39, 92, NL, 1, 127, 195, 169}

\* the number of bytes 'a' before the other bytes: none, or as many as bring
\* the line to the lengths at which write_cstring() breaks it
StrPads == {0} \cup (72..78)

RECURSIVE StrTails(_)
StrTails(n) ==
  IF n = 0 THEN {<<>>}
  ELSE StrTails(n - 1) \cup
       { Append(t, b) : t \in { u \in StrTails(n - 1) : Len(u) = n - 1 }, b \in StrBytes }

StrInputs ==
  { [i \in 1..pad |-> 97] \o t : pad \in StrPads, t \in StrTails(MaxTail) }

\* lines of code written by write_cc(), write_hc() and write_c_indented()
OpLines == { <<120, 59>>, <<120>>, <<120, NL, 121>>, <<120, NL>> }

InitOps ==
  /\ pc = "new"
  /\ g_project \in [write_mergeback_data : BOOLEAN, utf8_in_src : BOOLEAN]
  /\ tree = <<>>
  /\ f = Fd_Code_Writer
  /\ emitted = <<>>
  /\ edits = <<>>
  /\ modflag = 0
  /\ p = 0
  /\ mb = [task |-> -1]
  /\ last = [op |-> "none"]

\* a function node tests whether its code uses a variable
SetVarusedTest ==
  /\ pc = "new"
  /\ f.varused_test = 0
  /\ f' = [f EXCEPT !.varused_test = 1, !.varused = 0]
  /\ UNCHANGED <<pc, g_project, tree, emitted, edits, modflag, p, mb, last>>

\* the record of a call: the operation, its argument and the writer before
Called(op, arg) == [op |-> op, arg |-> arg, before |-> f]

OpWriteC ==
  /\ pc = "new"
  /\ \E text \in ApiTexts :
       /\ f' = write_c(f, text)
       /\ last' = Called("write_c", text)
  /\ pc' = "called"
  /\ UNCHANGED <<g_project, tree, emitted, edits, modflag, p, mb>>

OpWriteH ==
  /\ pc = "new"
  /\ \E text \in ApiTexts :
       /\ f' = write_h(f, text)
       /\ last' = Called("write_h", text)
  /\ pc' = "called"
  /\ UNCHANGED <<g_project, tree, emitted, edits, modflag, p, mb>>

OpWriteCString ==
  /\ pc = "new"
  /\ \E s \in StrInputs :
       /\ f' = write_cstring(f, s, Len(s))
       /\ last' = Called("write_cstring", s)
  /\ pc' = "called"
  /\ UNCHANGED <<g_project, tree, emitted, edits, modflag, p, mb>>

OpWriteCData ==
  /\ pc = "new"
  /\ \E s \in StrTails(MaxTail) :
       /\ f' = write_cdata(f, s, Len(s))
       /\ last' = Called("write_cdata", s)
  /\ pc' = "called"
  /\ UNCHANGED <<g_project, tree, emitted, edits, modflag, p, mb>>

OpWriteCC ==
  /\ pc = "new"
  /\ \E c \in OpLines, com \in {<<>>, <<47, 47>>} :
       /\ f' = write_cc(f, <<SP, SP>>, Len(c), c, com)
       /\ last' = Called("write_cc", c)
  /\ pc' = "called"
  /\ UNCHANGED <<g_project, tree, emitted, edits, modflag, p, mb>>

OpWriteHC ==
  /\ pc = "new"
  /\ \E c \in OpLines, com \in {<<>>, <<47, 47>>} :
       /\ f' = write_hc(f, <<SP, SP>>, Len(c), c, com)
       /\ last' = Called("write_hc", c)
  /\ pc' = "called"
  /\ UNCHANGED <<g_project, tree, emitted, edits, modflag, p, mb>>

OpWriteCIndented ==
  /\ pc = "new"
  /\ \E c \in OpLines, trail \in {NUL, NL} :
       /\ f' = write_c_indented(f, c, 1, trail)
       /\ last' = Called("write_c_indented", c) @@ [trail |-> trail]
  /\ pc' = "called"
  /\ UNCHANGED <<g_project, tree, emitted, edits, modflag, p, mb>>

OpWriteCOnce ==
  /\ pc = "new"
  /\ \E line \in OnceLines :
       /\ f' = write_c_once(f, line).w
       /\ last' = Called("write_c_once", line)
  /\ pc' = "called"
  /\ UNCHANGED <<g_project, tree, emitted, edits, modflag, p, mb>>

OpWriteHOnce ==
  /\ pc = "new"
  /\ \E line \in OnceLines :
       /\ f' = write_h_once(f, line).w
       /\ last' = Called("write_h_once", line)
  /\ pc' = "called"
  /\ UNCHANGED <<g_project, tree, emitted, edits, modflag, p, mb>>

OpTag ==
  /\ pc = "new"
  /\ \E type \in {FD_TAG_GENERIC, FD_TAG_CODE} :
       /\ f' = tag(f, type, 7)
       /\ last' = Called("tag", <<type>>)
  /\ pc' = "called"
  /\ UNCHANGED <<g_project, tree, emitted, edits, modflag, p, mb>>

NextOps ==
  \/ SetVarusedTest
  \/ OpWriteC
  \/ OpWriteH
  \/ OpWriteCString
  \/ OpWriteCData
  \/ OpWriteCC
  \/ OpWriteHC
  \/ OpWriteCIndented
  \/ OpWriteCOnce
  \/ OpWriteHOnce
  \/ OpTag

SpecOps == InitOps /\ [][NextOps]_vars

----------------------------------------------------------------------------
(* write_code(p) on the top-level nodes of a tree with children *)

\* the largest number of nodes of a tree
MaxWalkNodes == 4

WalkKinds == {"Widget_Class", "Function", "Widget", "Comment"}

\* the trees: the first node is at level 0, a node is at most one level
\* below the node before it, and a comment has no children
WalkTrees ==
  UNION { { tr \in [1..n -> [level : 0..(n - 1), id : WalkKinds]] :
              /\ tr[1].level = 0
              /\ \A i \in 2..n :
                   /\ tr[i].level <= tr[i - 1].level + 1
                   /\ tr[i].level > tr[i - 1].level => tr[i - 1].id # "Comment" }
          : n \in 1..MaxWalkNodes }

InitWalk ==
  /\ pc = "walk"
  /\ g_project \in [write_mergeback_data : {FALSE}, utf8_in_src : {FALSE}]
  /\ tree \in WalkTrees
  /\ f = Fd_Code_Writer
  /\ emitted = <<>>
  /\ edits = <<>>
  /\ modflag = 0
  /\ p = 1
  /\ mb = [task |-> -1]
  /\ last = [op |-> "none"]

\* one round of the for loop of write_code(s, t): p = write_code(p)
WalkNode ==
  /\ pc = "walk"
  /\ p <= Len(tree)
  /\ \E r \in {write_code_p([w |-> f, trace |-> <<>>, q |-> p], tree, p)} :
       /\ f' = r.w
       /\ p' = r.q
       /\ last' = [op |-> "write_code", node |-> p, ret |-> r.q, trace |-> r.trace,
                   before |-> f]
  /\ UNCHANGED <<pc, g_project, tree, emitted, edits, modflag, mb>>

NextWalk ==
  \/ WalkNode

SpecWalk == InitWalk /\ [][NextWalk]_vars

----------------------------------------------------------------------------
(* unindent() on the text of a block *)

\* the largest number of bytes of a block
MaxBlock == 4

\* the bytes of a block: space, tab, newline, carriage return, 'x'
BlockBytes == {SP, 9, NL, CR, 120}

Blocks == UNION { [1..n -> BlockBytes] : n \in 0..MaxBlock }

InitUn ==
  /\ pc = "block"
  /\ g_project = [write_mergeback_data |-> TRUE, utf8_in_src |-> FALSE]
  /\ tree = <<>>
  /\ f = Fd_Code_Writer
  /\ emitted \in Blocks
  /\ edits = <<>>
  /\ modflag = 0
  /\ p = 0
  /\ mb = [task |-> -1]
  /\ last = [op |-> "none"]

\* unindent(block) on a buffer that holds the block and its terminating NUL
Unindent ==
  /\ pc = "block"
  /\ last' = [op |-> "unindent", arg |-> emitted, ret |-> unindent(emitted)]
  /\ pc' = "unindented"
  /\ UNCHANGED <<g_project, tree, f, emitted, edits, modflag, p, mb>>

NextUn ==
  \/ Unindent

SpecUn == InitUn /\ [][NextUn]_vars

----------------------------------------------------------------------------
(* write_public() called by the nodes inside classes and widget classes *)

\* the largest number of classes around a node
MaxScopes == 2

\* the largest number of calls of write_public()
MaxPublicCalls == 3

InitPub ==
  /\ pc = "scope"
  /\ g_project = [write_mergeback_data |-> FALSE, utf8_in_src |-> FALSE]
  /\ tree = <<>>
  /\ f = Fd_Code_Writer
  /\ emitted = <<>>
  /\ edits = <<>>
  /\ modflag = 0
  /\ p = 0
  /\ mb = [task |-> -1]
  /\ last = [op |-> "none"]

\* write_code1() of a class or of a widget class: the node becomes the
\* current one; a class starts as private, a widget class as public
EnterScope ==
  /\ pc = "scope"
  /\ Len(tree) < MaxScopes
  /\ \E id \in {"Class", "Widget_Class"} :
       /\ id = "Widget_Class" => current_widget_class(tree) = 0
       /\ tree' = Append(tree, [id |-> id,
                                write_public_state |-> IF id = "Class" THEN 0 ELSE 1])
  /\ last' = [op |-> "enter"]
  /\ UNCHANGED <<pc, g_project, f, emitted, edits, modflag, p, mb>>

\* the end of write_code() of a class or of a widget class: the class
\* around it is the current one again
LeaveScope ==
  /\ pc = "scope"
  /\ tree # <<>>
  /\ tree' = SubSeq(tree, 1, Len(tree) - 1)
  /\ last' = [op |-> "leave"]
  /\ UNCHANGED <<pc, g_project, f, emitted, edits, modflag, p, mb>>

WritePublic ==
  /\ pc = "scope"
  /\ p < MaxPublicCalls
  /\ \E state \in 0..2 :
       /\ f' = write_public(f, tree, state).w
       /\ tree' = write_public(f, tree, state).tr
       /\ last' = [op |-> "write_public", arg |-> state, before |-> f,
                   scopes |-> tree]
  /\ p' = p + 1
  /\ UNCHANGED <<pc, g_project, emitted, edits, modflag, mb>>

NextPub ==
  \/ EnterScope
  \/ LeaveScope
  \/ WritePublic

SpecPub == InitPub /\ [][NextPub]_vars

----------------------------------------------------------------------------
(* indent(), indent_plus(), indent_more() and indent_less() *)

\* the levels of indentation that the calls reach
MaxLevel == 18

\* the levels below zero that indent_less() reaches
MaxBelow == 3

\* the offsets handed to indent_plus()
MaxOffset == 2

\* the record of a call on the indentation: the level before it, and the
\* call before it with the level before that one
Indented(op, set, ret) ==
  [op |-> op, set |-> set, ret |-> ret, level |-> f.indentation,
   prev |-> last.op, prev_level |-> IF last.op = "none" THEN 0 ELSE last.level]

InitInd ==
  /\ pc = "indent"
  /\ g_project = [write_mergeback_data |-> FALSE, utf8_in_src |-> FALSE]
  /\ tree = <<>>
  /\ f = Fd_Code_Writer
  /\ emitted = <<>>
  /\ edits = <<>>
  /\ modflag = 0
  /\ p = 0
  /\ mb = [task |-> -1]
  /\ last = [op |-> "none"]

IndentMore ==
  /\ pc = "indent"
  /\ f.indentation < MaxLevel
  /\ f' = indent_more(f)
  /\ last' = Indented("indent_more", f.indentation, <<>>)
  /\ UNCHANGED <<pc, g_project, tree, emitted, edits, modflag, p, mb>>

IndentLess ==
  /\ pc = "indent"
  /\ f.indentation > 0 - MaxBelow
  /\ f' = indent_less(f)
  /\ last' = Indented("indent_less", f.indentation, <<>>)
  /\ UNCHANGED <<pc, g_project, tree, emitted, edits, modflag, p, mb>>

Indent ==
  /\ pc = "indent"
  /\ last' = Indented("indent", f.indentation, indent_current(f))
  /\ UNCHANGED <<pc, g_project, tree, f, emitted, edits, modflag, p, mb>>

IndentPlus ==
  /\ pc = "indent"
  /\ \E offset \in (0 - MaxOffset)..MaxOffset :
       last' = Indented("indent_plus", f.indentation + offset, indent_plus(f, offset))
  /\ UNCHANGED <<pc, g_project, tree, f, emitted, edits, modflag, p, mb>>

NextInd ==
  \/ IndentMore
  \/ IndentLess
  \/ Indent
  \/ IndentPlus

SpecInd == InitInd /\ [][NextInd]_vars

----------------------------------------------------------------------------
(* write_code(s, t): the hooks of the nodes over the whole call *)

\* before the loop: a comment that is the first node is written at once and
\* the loop starts at the node behind it
EmitFirst ==
  /\ pc = "first"
  /\ IF tree[1].id = "Comment"
       THEN /\ last' = [op |-> "write_code", s |-> last.s,
                        trace |-> <<[ev |-> "write_code1", node |-> 1]>>]
            /\ p' = 2
       ELSE /\ last' = [op |-> "write_code", s |-> last.s, trace |-> <<>>]
            /\ p' = 1
  /\ pc' = "loop"
  /\ UNCHANGED <<g_project, tree, f, emitted, edits, modflag, mb>>

\* one round of the for loop: p = write_code(p)
EmitNode ==
  /\ pc = "loop"
  /\ p <= Len(tree)
  /\ \E r \in {write_code_p([w |-> f, trace |-> last.trace, q |-> p], tree, p)} :
       /\ f' = r.w
       /\ p' = r.q
       /\ last' = [last EXCEPT !.trace = r.trace]
  /\ UNCHANGED <<pc, g_project, tree, emitted, edits, modflag, mb>>

\* behind the loop: without a source path the call returns; otherwise a
\* comment that is the last node is written now
EmitLast ==
  /\ pc = "loop"
  /\ p > Len(tree)
  /\ last' = IF last.s # NoPath /\ tree[Len(tree)].id = "Comment"
               THEN [last EXCEPT !.trace = Append(@, [ev |-> "write_code1",
                                                     node |-> Len(tree)])]
               ELSE last
  /\ pc' = "done"
  /\ UNCHANGED <<g_project, tree, f, emitted, edits, modflag, p, mb>>

InitEmit ==
  /\ pc = "first"
  /\ g_project \in [write_mergeback_data : {FALSE}, utf8_in_src : {FALSE}]
  /\ tree \in WalkTrees
  /\ f = Fd_Code_Writer
  /\ emitted = <<>>
  /\ edits = <<>>
  /\ modflag = 0
  /\ p = 0
  /\ mb = [task |-> -1]
  /\ last \in [op : {"none"}, s : {"D.cxx", NoPath}]

NextEmit ==
  \/ EmitFirst
  \/ EmitNode
  \/ EmitLast

SpecEmit == InitEmit /\ [][NextEmit]_vars

----------------------------------------------------------------------------
(* Properties of merge_back() (specification Spec) *)

Merged == pc = "merged" /\ g_project.write_mergeback_data

Returned == (pc = "merged" \/ pc = "crashed") /\ g_project.write_mergeback_data

\* the only change since write_code() is one edit of the file
OneEdit(op) == Len(edits) = 1 /\ edits[1].op = op

\* the CRC of block k of the file, taken over the block as a whole, differs
\* from the one its tag line holds
Diverged(file, k) ==
  crc_differs(crc_add_acc(crc32_init, TRUE, BlockText(file, k),
                          Len(BlockText(file, k))).crc,
              TagOf(file, k).crc)

\* C1: the file write_code() has just written, passed unmodified to
\* merge_back(FD_MERGEBACK_CHECK) with mergeback data enabled, gives 0
C1_NullEffect ==
  (Merged /\ edits = <<>> /\ mb.task = FD_MERGEBACK_CHECK) => mb.ret = 0

\* C2: after exactly one callback block (kind 2 or 3) of the written file was
\* replaced by a text X, merge_back(FD_MERGEBACK_GO) returns 1 and the
\* callback of the node the tag names is unindent(X)
C2_MergeCallback ==
  (/\ Returned
   /\ mb.task = FD_MERGEBACK_GO
   /\ OneEdit("replace")
   /\ edits[1].kind \in {FD_TAG_MENU_CALLBACK, FD_TAG_WIDGET_CALLBACK})
  => /\ pc = "merged"
     /\ mb.ret = 1
     /\ find_by_uid(tree, edits[1].uid) # 0
     /\ tree[find_by_uid(tree, edits[1].uid)].callback = unindent(edits[1].text).text

\* the scan of the last call stopped behind tag line k
StoppedAt(k) ==
  mb.st.here = TagLines(emitted)[k].start + TagLines(emitted)[k].len

\* the last edit has made a tag line malformed
TagDamaged ==
  /\ edits # <<>>
  /\ edits[Len(edits)].op = "tag"
  /\ edits[Len(edits)].how \in Malformed

\* C3 as stated: a malformed tag line makes merge_back() return -1 in every
\* mode, FD_MERGEBACK_GO included
C3_MinusOneInEveryMode ==
  (Merged /\ TagDamaged) => mb.ret = -1

\* C3: a malformed tag line makes merge_back() abort the scan at that line;
\* FD_MERGEBACK_CHECK, _INTERACTIVE and _GO_SAFE then return -1, while
\* FD_MERGEBACK_GO returns 1 if a change was applied before that line and 0
\* if none was
C3_TagError ==
  (Merged /\ TagDamaged)
  => /\ mb.st.tag_error = 1
     /\ StoppedAt(edits[Len(edits)].k)
     /\ mb.ret = IF mb.task = FD_MERGEBACK_GO
                 THEN (IF tree # mb.tree0 THEN 1 ELSE 0)
                 ELSE -1
     /\ mb.task # FD_MERGEBACK_GO => tree = mb.tree0

C3_Witness ==
  /\ Merged /\ TagDamaged
  /\ mb.task = FD_MERGEBACK_GO
  /\ mb.st.tag_error = 1
  /\ tree # mb.tree0
  /\ mb.ret = 1

C5_CheckMutatesNothing ==
  (Returned /\ mb.task = FD_MERGEBACK_CHECK)
  => pc = "merged" /\ tree = mb.tree0 /\ modflag = mb.modflag0

C5_Witness ==
  /\ Merged /\ mb.task = FD_MERGEBACK_CHECK
  /\ OneEdit("replace") /\ edits[1].kind = FD_TAG_WIDGET_CALLBACK
  /\ mb.ret = 4

\* merge_back(FD_MERGEBACK_INTERACTIVE) has returned
Interactive == Merged /\ mb.task = FD_MERGEBACK_INTERACTIVE

\* the user was asked and has clicked Cancel
Cancelled == Interactive /\ mb.asked /\ mb.c = 0

\* C19: merge_back(FD_MERGEBACK_INTERACTIVE) returns -1 if it found an
\* invalid tag, 0 if it found nothing changed, and 1 only if the user chose
\* Merge and a node was changed; after Cancel no node is changed and the
\* value returned is not 1
C19_InteractiveResult ==
  Interactive
  => /\ \A chk \in {merge_back(emitted, mb.tree0, FD_MERGEBACK_CHECK, 0, mb.heap)} :
          /\ chk.ret = -1 => mb.ret = -1
          /\ chk.ret = 0 => mb.ret = 0
     /\ mb.ret = 1 => (mb.scans = 2 /\ mb.c = 1 /\ tree # mb.tree0)
     /\ Cancelled => (tree = mb.tree0 /\ modflag = mb.modflag0 /\ mb.ret # 1)

\* the bit is set iff the condition holds
Bit(cond, value) == IF cond THEN value ELSE 0

\* C6: for a file without malformed tag, merge_back(FD_MERGEBACK_CHECK)
\* returns bit 0 iff a kind 0 block diverged, bit 1 iff a kind 1 block, bit 2
\* iff a kind 2 or 3 block, bit 3 iff a divergent kind 1, 2 or 3 block names
\* a uid no node has, and no other bit
C6_CheckBits ==
  (Merged /\ mb.task = FD_MERGEBACK_CHECK /\ mb.st.tag_error = 0)
  => LET D(kinds) == \E k \in 1..Len(TagLines(emitted)) :
                       /\ TagKind(emitted, k) \in kinds
                       /\ Diverged(emitted, k)
         Lost     == \E k \in 1..Len(TagLines(emitted)) :
                       /\ TagKind(emitted, k) \in {FD_TAG_CODE, FD_TAG_MENU_CALLBACK,
                                                   FD_TAG_WIDGET_CALLBACK}
                       /\ Diverged(emitted, k)
                       /\ find_by_uid(tree, TagUid(emitted, k)) = 0
     IN  mb.ret = Bit(D({FD_TAG_GENERIC}), 1) + Bit(D({FD_TAG_CODE}), 2)
                + Bit(D({FD_TAG_MENU_CALLBACK, FD_TAG_WIDGET_CALLBACK}), 4)
                + Bit(Lost, 8)

C6_Witness ==
  /\ Merged /\ mb.task = FD_MERGEBACK_CHECK
  /\ Len(edits) = 2 /\ edits[1].op = "remove" /\ edits[2].op = "replace"
  /\ mb.ret = 10

\* C7 as stated: every change of a tag line away from the written format is a
\* tag error
C7_AnyDeviationIsError ==
  (Merged /\ OneEdit("tag")) => mb.st.tag_error = 1

\* C7: a tag line is a tag error iff sscanf() converts fewer than three
\* fields or the kind is outside 0..3; the written format is accepted, and so
\* are a missing "~~" at the end, blanks before the kind, text before the
\* marker, upper case and fewer hexadecimal digits, with the fields unchanged
C7_TagAccepted ==
  (Merged /\ mb.scans > 0 /\ (edits = <<>> \/ OneEdit("tag")))
  => /\ (mb.st.tag_error = 1) = (edits # <<>> /\ edits[1].how \in Malformed)
     /\ (edits # <<>> /\ edits[1].how \notin Malformed)
        => TagOf(emitted, edits[1].k) = TagOf(f.code_file, edits[1].k)

C7_Witness ==
  /\ Merged /\ OneEdit("tag") /\ edits[1].how = "no_tail"
  /\ mb.st.tag_error = 0
  /\ mb.ret = 0

\* the code and callback blocks of the file that diverged and whose tag
\* holds a uid that no node of tr has (lost) or that a node of tr has
DivergedBlocks(file, tr, lost) ==
  { k \in 1..Len(TagLines(file)) :
      /\ TagKind(file, k) \in {FD_TAG_CODE, FD_TAG_MENU_CALLBACK,
                               FD_TAG_WIDGET_CALLBACK}
      /\ Diverged(file, k)
      /\ lost = (\A i \in 1..Len(tr) : tr[i].uid # TagUid(file, k)) }

\* the last scan of the call classified the blocks
ClassifiedLast ==
  \/ mb.task = FD_MERGEBACK_CHECK
  \/ mb.task \in {FD_MERGEBACK_INTERACTIVE, FD_MERGEBACK_GO_SAFE} /\ mb.scans = 1

\* C26: a divergent code or callback block whose uid no node has is
\* counted in num_uid_not_found by a scan that classifies; a scan that
\* applies the edits skips it: nodes change only for blocks whose uid a node
\* has, and without such a block the tree stays as it was and the result of
\* FD_MERGEBACK_GO is 0
C26_UidNotFound ==
  Merged
  => /\ (ClassifiedLast /\ mb.st.tag_error = 0)
        => mb.st.num_uid_not_found
             = Cardinality(DivergedBlocks(emitted, mb.tree0, TRUE))
     /\ ~ClassifiedLast
        => /\ Len(tree) = Len(mb.tree0)
           /\ \A i \in 1..Len(tree) :
                tree[i] # mb.tree0[i]
                => \E k \in DivergedBlocks(emitted, mb.tree0, FALSE) :
                     TagUid(emitted, k) = mb.tree0[i].uid
           /\ DivergedBlocks(emitted, mb.tree0, FALSE) = {}
              => /\ tree = mb.tree0
                 /\ ~mb.changed
                 /\ mb.task # FD_MERGEBACK_INTERACTIVE => mb.ret = 0

\* a node was removed and the block of its code or callback was replaced:
\* FD_MERGEBACK_GO_SAFE counts the block and then skips it
C26_Witness ==
  /\ Merged
  /\ mb.task = FD_MERGEBACK_GO_SAFE
  /\ mb.scans = 2
  /\ Len(edits) = 2 /\ edits[1].op = "remove" /\ edits[2].op = "replace"
  /\ DivergedBlocks(emitted, mb.tree0, TRUE) # {}
  /\ tree = mb.tree0
  /\ mb.ret = 0

\* C29: every byte range that the FD_MERGEBACK_GO scan hands to
\* unindent_block() has block_start <= block_end and holds exactly the lines
\* between the tag line before and the tag line of the block, also for a
\* block without lines
C29_BlockRange ==
  (Returned /\ ~ClassifiedLast)
  => \A i \in 1..Len(mb.st.blocks) :
       /\ mb.st.blocks[i].start <= mb.st.blocks[i].end
       /\ \E k \in 1..Len(TagLines(emitted)) :
            /\ TagUid(emitted, k) = mb.st.blocks[i].uid
            /\ mb.st.blocks[i].start = BlockStart(emitted, k)
            /\ mb.st.blocks[i].end = BlockEnd(emitted, k)

\* C31: merge_back() returns for each of the four tasks and every file,
\* after one scan for FD_MERGEBACK_CHECK and FD_MERGEBACK_GO and after at
\* most two for FD_MERGEBACK_INTERACTIVE and FD_MERGEBACK_GO_SAFE, and has
\* closed the file it opened
C31_ReturnsAndCloses ==
  Returned
  => /\ pc = "merged"
     /\ mb.code = "closed"
     /\ mb.scans >= 1
     /\ mb.scans <= (IF mb.task \in {FD_MERGEBACK_CHECK, FD_MERGEBACK_GO} THEN 1 ELSE 2)

----------------------------------------------------------------------------
(* Properties of the writer's calls (specification SpecW) *)

\* C8: after tag(), whatever was written before, block_crc_ is the initial
\* CRC and block_line_start_ is true
C8_AfterTag ==
  last.op = "tag" => f.block_crc_ = crc32_init /\ f.block_line_start_

\* the line of the last write_c_once() or write_h_once() follows what the
\* file held before
Appended(file, before) ==
  /\ Len(file) > Len(before)
  /\ SubSeq(file, 1, Len(before) + Len(last.arg)) = before \o last.arg

C28_WholeTextWritten ==
  (last.op = "write_c" /\ g_project.write_mergeback_data)
  => /\ f.code_file = last.before.code_file \o last.arg
     /\ f.block_crc_ = crc_add_acc(last.before.block_crc_,
                                   last.before.block_line_start_,
                                   last.arg, Len(last.arg)).crc

----------------------------------------------------------------------------
(* Properties of unique_id() (specification SpecId) *)

\* the suffixes "1", "2", "3", "4"
IdSuffix == <<(<<>>), <<49>>, <<50>>, <<51>>, <<52>>>>

\* the k-th string tried for a buffer
IdTried(base, k) == base \o IdSuffix[k + 1]

\* C12: a call of unique_id() for an object with a type, a name and a label
\* returns the string that the first call for that object with these
\* arguments returned, whatever calls were made for other objects in between
C12_StableIdentifier ==
  last.op = "unique_id"
  => \A c \in last.first :
       (c.o = last.arg.o /\ c.name = last.arg.name /\ c.label = last.arg.label)
       => c.ret = last.ret

\* an object that was given its buffer with suffix 1 asks again after a
\* third object was given the buffer with suffix 2
C12_Witness ==
  /\ last.op = "unique_id"
  /\ last.before.id_root = f.id_root
  /\ last.ret = IdTried(id_buffer(IdType, last.arg.name, last.arg.label), 1)
  /\ \E e \in f.id_root :
       /\ e.object # last.arg.o
       /\ e.text = IdTried(id_buffer(IdType, last.arg.name, last.arg.label), 2)

\* the object that has a string in the tree, 0 if none has
IdOwner(w, text) ==
  IF \E e \in w.id_root : e.text = text
    THEN (CHOOSE e \in w.id_root : e.text = text).object
    ELSE 0

\* C13: no string is returned to two objects, and the string returned is the
\* buffer with the first of the suffixes none, 1, 2, ... that makes a string
\* which is free or is the object's own
C13_UniqueIdentifier ==
  /\ \A a \in last.given : \A b \in last.given :
       a.text = b.text => a.object = b.object
  /\ last.op = "unique_id"
     => \E k \in 0..MaxIdCalls :
          /\ last.ret = IdTried(id_buffer(IdType, last.arg.name, last.arg.label), k)
          /\ IdOwner(last.before, last.ret) \in {0, last.arg.o}
          /\ \A j \in 0..(k - 1) :
               IdOwner(last.before,
                       IdTried(id_buffer(IdType, last.arg.name, last.arg.label), j))
                 \notin {0, last.arg.o}

\* a third object asks for a taken string and gets suffix 2
C13_Witness ==
  /\ last.op = "unique_id"
  /\ last.ret = IdTried(id_buffer(IdType, last.arg.name, last.arg.label), 2)
  /\ IdOwner(last.before, last.ret) = 0
  /\ Cardinality({ e.object : e \in f.id_root }) = 3

----------------------------------------------------------------------------
(* Properties of write_code(s, t) (specification SpecWc) *)

\* C14: two calls of write_code() on one writer, with the same design, the
\* same settings and the same two file names, leave the same bytes in the
\* source file and the same bytes in the header file
C14_SecondCallSameFiles ==
  (/\ pc = "returned"
   /\ Len(last.out) = 2
   /\ last.s # NoPath
   /\ last.t # NoPath
   /\ last.out[1].ret = 1
   /\ last.out[2].ret = 1)
  => /\ last.out[2].code = last.out[1].code
     /\ last.out[2].header = last.out[1].header

\* how often a stream was closed by the call
Closes(stream) ==
  Cardinality({ i \in 1..Len(last.closed) : last.closed[i] = stream })

\* C16: when write_code() has returned, each file it opened from a name is
\* closed exactly once and stdout is not closed; when the header file could
\* not be opened, the code file is closed and 0 is returned
C16_FilesReleased ==
  pc = "returned"
  => /\ \A stream \in last.opened : Closes(stream) = 1
     /\ Closes("stdout") = 0
     /\ last.failed = "header"
        => /\ last.out[Len(last.out)].ret = 0
           /\ last.opened = {"code"} => Closes("code") = 1

\* the text ends with "#endif\n"
EndsWithEndif(text) ==
  /\ Len(text) >= 7
  /\ SubSeq(text, Len(text) - 6, Len(text)) = <<35, 101, 110, 100, 105, 102, 10>>

\* C21: a call of write_code() that has opened both files and has walked the
\* tree leaves a header that ends with "#endif", also when s is NULL and the
\* code goes to stdout
C21_EndifWritten ==
  (pc = "returned" /\ last.failed = "none")
  => /\ last.out[Len(last.out)].ret = 1
     /\ EndsWithEndif(f.header_file)

----------------------------------------------------------------------------
(* Properties of single writing calls (specification SpecOps) *)

\* the operations that write to the code file
CodeOps ==
  {"write_c", "write_cstring", "write_cdata", "write_cc", "write_c_indented",
   "write_c_once", "tag"}

\* a call was made while varused_test was set
TestedCall == pc = "called" /\ last.before.varused_test # 0

\* C15: a call made while varused_test is set appends no byte to the code
\* file and none to the header file, and a call that writes code sets varused
C15_TestSuppressesWrites ==
  TestedCall
  => /\ f.code_file = last.before.code_file
     /\ f.header_file = last.before.header_file
     /\ last.op \in CodeOps => f.varused = 1

\* what the last call has appended to the code file
Written == SubSeq(f.code_file, Len(last.before.code_file) + 1, Len(f.code_file))

\* write_cstring() was called with varused_test not set
StringWritten ==
  /\ pc = "called"
  /\ last.op = "write_cstring"
  /\ last.before.varused_test = 0

\* C17 as stated: a string of bytes 0x20..0x7E without backslash and double
\* quote is written as the double-quoted string with the same bytes
C17_PrintableVerbatim ==
  (/\ StringWritten
   /\ \A i \in 1..Len(last.arg) :
        last.arg[i] >= 32 /\ last.arg[i] <= 126 /\ last.arg[i] \notin {92, 34})
  => Written = <<34>> \o last.arg \o <<34>>

\* C17: a string of at most 77 bytes 0x20..0x7E without backslash, double
\* quote, single quote and without two question marks in a row is written as
\* the double-quoted string with the same bytes
C17_PlainVerbatim ==
  (/\ StringWritten
   /\ Len(last.arg) <= 77
   /\ \A i \in 1..Len(last.arg) :
        /\ last.arg[i] >= 32 /\ last.arg[i] <= 126
        /\ last.arg[i] \notin {92, 34, 39}
        /\ (i > 1 /\ last.arg[i] = 63) => last.arg[i - 1] # 63)
  => Written = <<34>> \o last.arg \o <<34>>

\* a string of 77 plain bytes with a question mark was written
C17_Witness ==
  /\ StringWritten
  /\ Len(last.arg) = 77
  /\ \A i \in 1..Len(last.arg) : last.arg[i] \in {97, 49, 102, 63}
  /\ \E i \in 1..Len(last.arg) : last.arg[i] = 63
  /\ Written = <<34>> \o last.arg \o <<34>>

\* translation phase 2 of C: each backslash directly before a newline is
\* deleted with the newline
Spliced(text) ==
  LET Kept(i) == /\ ~(text[i] = 92 /\ At(text, i + 1) = NL)
                 /\ ~(text[i] = NL /\ At(text, i - 1) = 92)
      Map(idx) == [k \in 1..Len(idx) |-> text[idx[k]]]
  IN  Map(SelectSeq([i \in 1..Len(text) |-> i], Kept))

IsOctalChar(c) == c >= 48 /\ c <= 55

\* a digit of a hexadecimal number in C
CHexDigit(c) == c \in (48..57) \cup (97..102) \cup (65..70)

\* the byte a simple escape sequence stands for, -1 if c makes none
SimpleEscape(c) ==
  IF c = 98 THEN 8 ELSE IF c = 116 THEN 9 ELSE IF c = 110 THEN 10
  ELSE IF c = 102 THEN 12 ELSE IF c = 114 THEN 13
  ELSE IF c \in {34, 39, 92, 63} THEN c ELSE -1

\* the number of octal digits of the escape sequence at text[i], at most 3
OctalDigits(text, i) ==
  IF ~IsOctalChar(At(text, i)) THEN 0
  ELSE IF ~IsOctalChar(At(text, i + 1)) THEN 1
  ELSE IF ~IsOctalChar(At(text, i + 2)) THEN 2 ELSE 3

OctalValue(text, i, n) ==
  IF n = 1 THEN text[i] - 48
  ELSE IF n = 2 THEN (text[i] - 48) * 8 + (text[i + 1] - 48)
  ELSE (text[i] - 48) * 64 + (text[i + 1] - 48) * 8 + (text[i + 2] - 48)

\* one step of reading the spliced text as adjacent C string literals: st.i
\* is the position, st.inside tells whether it is within a literal, st.value
\* has the bytes read so far, st.tight whether an octal escape was directly
\* followed by a hex digit, st.ok whether the text was well-formed so far
CLiteralStep(text, st) ==
  LET c == text[st.i]
      d == At(text, st.i + 1)
      n == OctalDigits(text, st.i + 1)
      Bad == [st EXCEPT !.ok = FALSE, !.i = Len(text) + 1]
  IN  IF ~st.inside
        THEN IF c = 34 THEN [st EXCEPT !.i = @ + 1, !.inside = TRUE]
             ELSE IF c \in {NL, SP} THEN [st EXCEPT !.i = @ + 1]
             ELSE Bad
      ELSE IF c = 34 THEN [st EXCEPT !.i = @ + 1, !.inside = FALSE]
      ELSE IF c = NL THEN Bad
      ELSE IF c # 92 THEN [st EXCEPT !.i = @ + 1, !.value = Append(@, c)]
      ELSE IF SimpleEscape(d) >= 0
        THEN [st EXCEPT !.i = @ + 2, !.value = Append(@, SimpleEscape(d))]
      ELSE IF n > 0 /\ OctalValue(text, st.i + 1, n) <= 255
        THEN [st EXCEPT !.i = @ + 1 + n,
                        !.value = Append(@, OctalValue(text, st.i + 1, n)),
                        !.tight = @ \/ CHexDigit(At(text, st.i + 1 + n))]
      ELSE Bad

RECURSIVE CLiteralRun(_, _, _)
CLiteralRun(text, st, k) ==
  IF st.i > Len(text) \/ k = 0 THEN st
  ELSE CLiteralRun(text, CLiteralStep(text, st), k - 1)

RECURSIVE CLiteralLoop(_, _)
CLiteralLoop(text, st) ==
  IF st.i > Len(text) THEN st ELSE CLiteralLoop(text, CLiteralRun(text, st, 16))

\* the spliced text read as adjacent C string literals
CLiterals(text) ==
  LET Out(st) == [ok |-> st.ok /\ ~st.inside, value |-> st.value, tight |-> st.tight]
  IN  Out(CLiteralLoop(text, [i |-> 1, inside |-> FALSE, value |-> <<>>,
                              tight |-> FALSE, ok |-> TRUE]))

\* two question marks in a row
HasQuestionPair(text) ==
  \E i \in 1..(Len(text) - 1) : text[i] = 63 /\ text[i + 1] = 63

\* C18: what write_cstring() writes for a string s reads as adjacent C
\* string literals with the value s; no octal escape is directly followed by
\* a hex digit in its literal and no question mark directly by another
C18_ReadsBack ==
  StringWritten
  => \A r \in {CLiterals(Spliced(Written))} :
       /\ r.ok
       /\ r.value = last.arg
       /\ ~r.tight
       /\ ~HasQuestionPair(Spliced(Written))

\* a string with a byte written in octal before a hex digit was written
\* across a line break
C18_Witness ==
  /\ StringWritten
  /\ \E i \in 1..(Len(last.arg) - 1) :
       /\ last.arg[i] \in {1, 127}
       /\ CHexDigit(last.arg[i + 1])
  /\ \E i \in 1..Len(Written) : Written[i] = NL
  /\ CLiterals(Spliced(Written)).value = last.arg

\* C27: write_c_indented(text, extra, trail) writes nothing behind the
\* final newline of a text that ends with a newline, ends what it writes
\* with trail for a text that does not, and leaves the level of indentation
\* as it was
C27_TrailingChar ==
  (last.op = "write_c_indented" /\ last.before.varused_test = 0)
  => LET out == SubSeq(f.code_file, Len(last.before.code_file) + 1, Len(f.code_file))
     IN  /\ f.indentation = last.before.indentation
         /\ SubSeq(f.code_file, 1, Len(last.before.code_file)) = last.before.code_file
         /\ out # <<>>
         /\ IF last.arg[Len(last.arg)] = NL
              THEN out[Len(out)] = NL
              ELSE last.trail # NUL => out[Len(out)] = last.trail

----------------------------------------------------------------------------
(* Properties of write_code(p) (specification SpecWalk) *)

\* write_code(p) has been called for the node last.node
Walked == pc = "walk" /\ last.op = "write_code"

\* the first node behind node i that is not below it, Len(tree) + 1 if
\* there is none
Following(i) ==
  CHOOSE j \in (i + 1)..(Len(tree) + 1) :
    /\ j = Len(tree) + 1 \/ tree[j].level <= tree[i].level
    /\ \A k \in (i + 1)..(j - 1) : tree[k].level > tree[i].level

\* node i and the nodes below it
Subtree(i) == i..(Following(i) - 1)

ChildrenOf(i) == { k \in Subtree(i) : tree[k].level = tree[i].level + 1 }

\* the places in the record of the hooks at which ev was called for node n
Places(ev, n) ==
  { j \in 1..Len(last.trace) : last.trace[j].ev = ev /\ last.trace[j].node = n }

\* the places at which anything was called for node k or a node below it
Span(k) == { j \in 1..Len(last.trace) : last.trace[j].node \in Subtree(k) }

\* every place of a is before every place of b
AllBefore(a, b) == \A x \in a : \A y \in b : x < y

\* the hooks of child k of n are called between these: for a function in a
\* widget class behind write_code2() of the class and before the "};",
\* otherwise behind write_code1() and before write_code2() of n
ChildIsLater(n, k) == tree[n].id = "Widget_Class" /\ tree[k].id = "Function"

\* C20: write_code(p) calls write_code1() of p, then writes the subtrees of
\* the children of p one after the other in their order, then calls
\* write_code2() of p; for a widget class the subtrees of the children that
\* are functions are written behind write_code2(), in their order, and "};"
\* goes to the header behind them; the node returned is the first behind p
\* that is not below p.  The same holds for each node below p.
C20_WalkOrder ==
  Walked
  => /\ last.ret = Following(last.node)
     /\ \A j \in 1..Len(last.trace) : last.trace[j].node \in Subtree(last.node)
     /\ \A n \in Subtree(last.node) :
          /\ Cardinality(Places("write_code1", n)) =
               (IF n = Len(tree) /\ tree[n].id = "Comment" THEN 0 ELSE 1)
          /\ Cardinality(Places("write_code2", n)) = 1
          /\ Cardinality(Places("write_h", n)) =
               (IF tree[n].id = "Widget_Class" THEN 1 ELSE 0)
          /\ AllBefore(Places("write_code1", n), Places("write_code2", n))
          /\ AllBefore(Places("write_code2", n), Places("write_h", n))
          /\ \A k \in ChildrenOf(n) :
               /\ \A x \in Span(k) : \A y \in Span(k) :
                    \A z \in x..y : z \in Span(k)
               /\ IF ChildIsLater(n, k)
                    THEN /\ AllBefore(Places("write_code2", n), Span(k))
                         /\ AllBefore(Span(k), Places("write_h", n))
                    ELSE /\ AllBefore(Places("write_code1", n), Span(k))
                         /\ AllBefore(Span(k), Places("write_code2", n))
               /\ \A k2 \in ChildrenOf(n) :
                    (k < k2 /\ ChildIsLater(n, k) = ChildIsLater(n, k2))
                    => AllBefore(Span(k), Span(k2))

\* write_code(p) has written a widget class whose first child is a function
\* with a child of its own and whose last child is no function
C20_Witness ==
  /\ Walked
  /\ last.node = 1
  /\ Len(tree) = 4
  /\ tree[1].id = "Widget_Class"
  /\ tree[2].id = "Function" /\ tree[2].level = 1
  /\ tree[3].level = 2
  /\ tree[4].id = "Widget" /\ tree[4].level = 1
  /\ Len(last.trace) = 9
  /\ AllBefore(Span(4), Span(2))
  /\ f.header_file = <<125, 59, NL>>

----------------------------------------------------------------------------
(* Properties of the hooks over one write_code(s, t) (specification SpecEmit) *)

\* C32: when write_code(s, t) with a source path has returned, write_code1()
\* was called exactly once and write_code2() at most once for every node of
\* the tree, also when the first node, the last node or the only node is a
\* comment
C32_HooksOnce ==
  (pc = "done" /\ last.s # NoPath)
  => \A n \in 1..Len(tree) :
       /\ Cardinality(Places("write_code1", n)) = 1
       /\ Cardinality(Places("write_code2", n)) <= 1

----------------------------------------------------------------------------
(* Properties of unindent() (specification SpecUn) *)

Unindented == pc = "unindented" /\ last.op = "unindent"

\* the lines of a text without their newlines; the text behind the last
\* newline is a line too
RECURSIVE LinesOf(_)
LinesOf(text) ==
  IF strchr(text, NL) = 0 THEN <<text>>
  ELSE <<SubSeq(text, 1, strchr(text, NL) - 1)>> \o
       LinesOf(SubSeq(text, strchr(text, NL) + 1, Len(text)))

NotCR(c) == c # CR

\* line b is line a without its carriage returns and without none, one or
\* two of its first whitespace bytes
IsUnindented(a, b) ==
  \E k \in 0..2 :
    /\ k <= Len(SelectSeq(a, NotCR))
    /\ \A j \in 1..k : isspace(SelectSeq(a, NotCR)[j])
    /\ b = SubSeq(SelectSeq(a, NotCR), k + 1, Len(SelectSeq(a, NotCR)))

\* C22: unindent() keeps the lines of a block, blank lines too, and takes
\* from each line its carriage returns and at most two leading whitespace
\* bytes
C22_UnindentRule ==
  Unindented
  => /\ Len(LinesOf(last.ret.text)) = Len(LinesOf(last.arg))
     /\ \A i \in 1..Len(LinesOf(last.arg)) :
          i <= Len(LinesOf(last.ret.text))
          => IsUnindented(LinesOf(last.arg)[i], LinesOf(last.ret.text)[i])

\* C30: unindent() stops at the terminating NUL of its text, also for a
\* text that ends with a blank line, with a last line of whitespace only or
\* with a carriage return, and the text it leaves is not longer than the one
\* it was given
C30_StaysInside ==
  Unindented
  => /\ ~last.ret.over
     /\ Len(last.ret.text) <= Len(last.arg)

----------------------------------------------------------------------------
(* Properties of write_public() (specification SpecPub) *)

\* C24: write_public(state) outside of a class writes nothing; inside, it
\* writes the keyword of state to the header exactly if the innermost class
\* or widget class has recorded another state, and that class then has
\* state recorded
C24_KeywordWhenChanged ==
  last.op = "write_public"
  => /\ f.code_file = last.before.code_file
     /\ IF last.scopes = <<>>
          THEN f.header_file = last.before.header_file /\ tree = last.scopes
          ELSE /\ tree[Len(tree)].write_public_state = last.arg
               /\ f.header_file =
                    (IF last.scopes[Len(last.scopes)].write_public_state = last.arg
                       THEN last.before.header_file
                       ELSE last.before.header_file \o public_keyword(last.arg))

----------------------------------------------------------------------------
(* Properties of the indentation (specification SpecInd) *)

\* C25: indent() and indent_plus() return min(2 * max(level, 0), 32)
\* spaces for every level, the negative ones and those above 16 included,
\* and indent_less() after indent_more() restores the level of indentation
C25_IndentClamped ==
  /\ last.op \in {"indent", "indent_plus"}
     => /\ Len(last.ret) = Min(2 * Max(last.set, 0), 32)
        /\ \A k \in 1..Len(last.ret) : last.ret[k] = SP
        /\ f.indentation = last.level
  /\ (last.op = "indent_less" /\ last.prev = "indent_more")
     => f.indentation = last.prev_level

\* indent_plus() is asked for a level above 16 and returns 32 spaces
C25_Witness ==
  /\ last.op = "indent_plus"
  /\ last.set > 16
  /\ Len(last.ret) = 32
  /\ f.indentation > 16

----------------------------------------------------------------------------
(* Properties of crc_add() (specification SpecCrc) *)

\* C9: two streams that differ in a carriage return anywhere, or in a blank
\* at the start of a line, give the same block_crc_ from the same accumulator
C9_Normalization ==
  pc = "fed" => last.a = last.b

\* the bytes of a stream that count for the CRC: all but the carriage
\* returns and the blanks and tabs at the start of a line; ls tells whether
\* the stream begins at the start of a line
RECURSIVE Counted(_, _)
Counted(s, ls) ==
  IF s = <<>> THEN <<>>
  ELSE IF Head(s) = CR THEN Counted(Tail(s), ls)
  ELSE IF Head(s) = NL THEN <<NL>> \o Counted(Tail(s), TRUE)
  ELSE IF ls /\ Head(s) \in {SP, 9} THEN Counted(Tail(s), TRUE)
  ELSE <<Head(s)>> \o Counted(Tail(s), FALSE)

\* the CRC of a text, byte by byte
RECURSIVE CrcOf(_, _)
CrcOf(crc, text) ==
  IF text = <<>> THEN crc ELSE CrcOf(crc32(crc, Head(text)), Tail(text))

\* C23: crc_add() of a stream gives the CRC of its bytes without the
\* carriage returns and without the blanks at the start of its lines; every
\* newline counts, the one of an empty or blank line too
C23_NewlinesCount ==
  pc = "fed" => last.a = CrcOf(crc32_init, Counted(last.s, last.ls))

====
